---------------------------- MODULE Spec2Model ----------------------------
(***************************************************************************)
(* Model of the AI World Cup match supervisor                              *)
(* (test_world-develop/controllers/supervisor/supervisor.py).              *)
(*                                                                         *)
(* Three specifications share one set of variables:                        *)
(*   SpecRpc  - TcpServer.spin / GameSupervisor.callback: sessions, the    *)
(*              textual RPC framer, role resolution and command effects;   *)
(*   SpecOwn  - the ownership tie-break functions get_corner_ownership and *)
(*              get_pa_ownership over bounded robot placements;            *)
(*   SpecTick - the rule evaluation of one control step of                 *)
(*              GameSupervisor.run.                                        *)
(*                                                                         *)
(* Text is a sequence of one-character strings, indexed from 0 by the      *)
(* Py* operators exactly as Python indexes str.                            *)
(* Lengths are in integer field units, match time in control periods.      *)
(***************************************************************************)
EXTENDS Integers, Sequences, FiniteSets, TLC

VARIABLES
    \* ---- TcpServer
    connections,      \* clients in TcpServer.connections (the server socket left out)
    unprocessedData,  \* TcpServer.unprocessedData, per client
    closed,           \* clients whose socket cleanup() closed (fileno() == -1)
    wire,             \* environment: bytes each client has still to send
    stream0,          \* environment: the whole text each client sends (history)
    sent,             \* environment: messages handed to TcpServer.send, in order
    \* ---- GameSupervisor: protocol side
    role_client,      \* self.role_client: role (or -1) -> client
    ready,            \* self.ready, a list of 4 flags
    customData,       \* wheel command of every robot node (customData field)
    comments_,        \* self.comments_, deque(maxlen=NUM_COMMENTS)
    report,           \* self.report
    report_file,      \* what save_report wrote to the report file (None: no file)
    handled,          \* history: one entry per command that reached get_role
    pc,               \* "run" | "crashed" (uncaught exception) | "stopped" | "ended"
    \* ---- GameSupervisor: match side
    time,             \* self.time, in control periods
    score,            \* self.score
    half_passed,      \* self.half_passed
    reset_reason,     \* self.reset_reason
    game_state,       \* self.game_state
    ball_ownership,   \* self.ball_ownership
    robot,            \* self.robot[team][id]: active, touch and the four timers
    recent_touch,     \* self.recent_touch
    deadlock_time,    \* self.deadlock_time
    phase_time,       \* kickoff_time, goalkick_time, cornerkick_time, penaltykick_time
    ball_position,    \* self.ball_position, read once at the top of a loop pass
    \* ---- Simulation backend
    ballW,            \* ball translation, world frame, <<x, y>>
    ballV,            \* ball speed
    robW,             \* robot postures, world frame: [x, y, th, stand]
    touchQ,           \* receiver queue: touch packets not yet read
    \* ---- run(): what the loop's frame publisher and config hold
    published,        \* messages the current loop pass handed to TcpServer.send
    config,           \* config['rule']['deadlock'] and config['tool']['repeat']
    \* ---- results of the last rule evaluation / function application
    probe

vars == <<connections, closed, unprocessedData, wire, stream0, sent, role_client, ready,
          customData, comments_, report,
                   report_file, handled, pc, time, score, half_passed,
          reset_reason, game_state, ball_ownership, robot, recent_touch,
          deadlock_time, phase_time, ball_position, ballW, ballV, robW, touchQ,
          published, config, probe>>

rpcVars == <<connections, closed, unprocessedData, wire, stream0, sent, role_client,
             ready, customData, comments_, report,
                   report_file, handled>>

matchVars == <<time, score, half_passed, reset_reason, game_state,
               ball_ownership, robot, recent_touch, deadlock_time, phase_time,
               ball_position, ballW, ballV, robW, touchQ, published, config>>

-----------------------------------------------------------------------------
(* constants.py: roles, teams *)

TEAM_RED == 0
TEAM_BLUE == 1
COMMENTATOR == 2
REPORTER == 3
INVALID_ROLE == -1
NUMBER_OF_ROBOTS == 5
NUM_COMMENTS == 3

TEAMS == {TEAM_RED, TEAM_BLUE}
ROLES == {TEAM_RED, TEAM_BLUE, COMMENTATOR, REPORTER}
IDS == 0 .. (NUMBER_OF_ROBOTS - 1)
None == "None"

-----------------------------------------------------------------------------
(* Python str operations on sequences of characters, 0-based *)

Min(a, b) == IF a < b THEN a ELSE b
Max(a, b) == IF a > b THEN a ELSE b

PyStartsWith(s, p) ==
    Len(s) >= Len(p) /\ SubSeq(s, 1, Len(p)) = p

PyEndsWith(s, p) ==
    Len(s) >= Len(p) /\ SubSeq(s, Len(s) - Len(p) + 1, Len(s)) = p

\* s.find(sub, start): the least 0-based index >= start where sub occurs, else -1
RECURSIVE PyFind(_, _, _)
PyFind(s, sub, start) ==
    IF start + Len(sub) > Len(s) THEN -1
    ELSE IF SubSeq(s, start + 1, start + Len(sub)) = sub THEN start
    ELSE PyFind(s, sub, start + 1)

\* s[a:b] with Python's treatment of negative and out-of-range indices
PySlice(s, a, b) ==
    LET n  == Len(s)
        a1 == IF a < 0 THEN Max(n + a, 0) ELSE Min(a, n)
        b1 == IF b < 0 THEN Max(n + b, 0) ELSE Min(b, n)
    IN  IF a1 >= b1 THEN <<>> ELSE SubSeq(s, a1 + 1, b1)

\* s[a:]
PyTail(s, a) == PySlice(s, a, Len(s))

\* s.split(sep): always at least one piece
RECURSIVE PySplit(_, _)
PySplit(s, sep) ==
    LET i == PyFind(s, sep, 0)
    IN  IF i = -1 THEN <<s>>
        ELSE <<PySlice(s, 0, i)>> \o PySplit(PyTail(s, i + Len(sep)), sep)


-----------------------------------------------------------------------------
(* The wire protocol's fixed texts *)

Marker == <<"a", "i", "w", "c", ".">>
N_get_info == <<"g", "e", "t", "_", "i", "n", "f", "o", "(">>
N_ready == <<"r", "e", "a", "d", "y", "(">>
N_set_speeds == <<"s", "e", "t", "_", "s", "p", "e", "e", "d", "s", "(">>
N_commentate == <<"c", "o", "m", "m", "e", "n", "t", "a", "t", "e", "(">>
N_report == <<"r", "e", "p", "o", "r", "t", "(">>
Quote == <<"\"">>
QuoteComma == <<"\"", ",">>
Comma == <<",">>
RParen == <<")">>
Digits == {"0", "1", "2", "3", "4", "5", "6", "7", "8", "9"}

\* role_info[role]['key']: random_string(KEY_LENGTH), one per configured role;
\* the model gives every role a key and keeps the four keys distinct.
RoleKey(role) ==
    CASE role = TEAM_RED -> <<"R">>
      [] role = TEAM_BLUE -> <<"B">>
      [] role = COMMENTATOR -> <<"C">>
      [] OTHER -> <<"P">>

\* get_key: the text between the first two double quotes
get_key(rpc) ==
    LET first == PyFind(rpc, Quote, 0) + 1
    IN  PySlice(rpc, first, PyFind(rpc, Quote, first))

\* get_role: the first role whose key matches, else -1
get_role(rpc) ==
    LET key == get_key(rpc)
        hit == {r \in ROLES : RoleKey(r) = key}
    IN  IF hit = {} THEN INVALID_ROLE
        ELSE CHOOSE r \in hit : \A q \in hit : r <= q

\* float(i): the model's inbound alphabet has no sign, point or exponent, so a
\* token converts iff it is a non-empty run of digits; anything else raises
\* ValueError.
IsFloat(tok) == Len(tok) > 0 /\ \A k \in 1 .. Len(tok) : tok[k] \in Digits

DigitVal(ch) ==
    CASE ch = "0" -> 0 [] ch = "1" -> 1 [] ch = "2" -> 2 [] ch = "3" -> 3
      [] ch = "4" -> 4 [] ch = "5" -> 5 [] ch = "6" -> 6 [] ch = "7" -> 7
      [] ch = "8" -> 8 [] OTHER -> 9

RECURSIVE FloatVal(_)
FloatVal(tok) ==
    IF Len(tok) = 0 THEN 0
    ELSE 10 * FloatVal(SubSeq(tok, 1, Len(tok) - 1)) + DigitVal(tok[Len(tok)])

\* Python list indexing of a list of length n by i (negative i counts from the
\* end); the result is the 1-based position
PyIdx(i, n) == IF i < 0 THEN n + i + 1 ELSE i + 1


-----------------------------------------------------------------------------
(* GameSupervisor.set_speeds and GameSupervisor.callback                   *)
(*                                                                         *)
(* The protocol-side state the callback reads and writes is threaded       *)
(* through a record g: role_client, ready, customData, comments_, report,  *)
(* sent, handled, plus the loop's own unprocessed text and its outcome     *)
(* out: "loop" (still iterating), "return" (early return) or "raise" (an   *)
(* exception left the function).  act[t][i] is robot[t][i]['active'] and   *)
(* now is self.time; the callback changes neither.                         *)

\* the customData string "%f %f" % (left / WHEEL_RADIUS[id], right / WHEEL_RADIUS[id]),
\* kept as the pair of values before the fixed per-robot division
WheelCommand(speeds, id) == <<speeds[2 * id + 1], speeds[2 * id + 2]>>

StoppedWheels == <<0, 0>>

\* set_speeds(team, speeds) from robot id on: an active robot whose two values
\* are missing raises IndexError, after the robots before it were written.
\* team indexes self.robot as a Python list, so -1 is the last team.
RECURSIVE set_speeds_from(_, _, _, _, _)
set_speeds_from(cd, act, team, speeds, id) ==
    LET t == PyIdx(team, 2) - 1
    IN  IF id >= NUMBER_OF_ROBOTS THEN [customData |-> cd, raised |-> FALSE]
        ELSE IF ~act[t][id] THEN set_speeds_from(cd, act, team, speeds, id + 1)
        ELSE IF 2 * id + 2 > Len(speeds) THEN [customData |-> cd, raised |-> TRUE]
        ELSE set_speeds_from([cd EXCEPT ![t][id] = WheelCommand(speeds, id)],
                             act, team, speeds, id + 1)

set_speeds(cd, act, team, speeds) == set_speeds_from(cd, act, team, speeds, 0)

\* the authorization tests of callback
SetSpeedsDenied(role) == role > TEAM_BLUE
CommentateDenied_AnyRole(role) == FALSE
CommentateDenied(role) == role # COMMENTATOR
ReportDenied(role) == role # REPORTER

CommandKind(command) ==
    CASE PyStartsWith(command, N_get_info) -> "get_info"
      [] PyStartsWith(command, N_ready) -> "ready"
      [] PyStartsWith(command, N_set_speeds) -> "set_speeds"
      [] PyStartsWith(command, N_commentate) -> "commentate"
      [] PyStartsWith(command, N_report) -> "report"
      [] OTHER -> "unknown"

\* deque(maxlen=NUM_COMMENTS).append
DequeAppend(q, x) ==
    IF Len(q) >= NUM_COMMENTS THEN Tail(q) \o <<x>> ELSE q \o <<x>>

\* json.dumps(self.role_info[TEAM_RED]), as far as the model follows it: the
\* info block of team red, which holds team red's key
InfoMessage(client) ==
    [to |-> client, kind |-> "info", body |-> RoleKey(TEAM_RED)]

\* the body of callback's loop for one complete command, after
\* self.role_client[role] = client
Dispatch(g, act, now, client, command, role) ==
    LET kind == CommandKind(command)
    IN  CASE kind = "get_info" ->
               [g EXCEPT !.sent = Append(@, InfoMessage(client))]
          [] kind = "ready" ->
               [g EXCEPT !.ready[PyIdx(role, 4)] = TRUE]
          [] kind = "set_speeds" ->
               IF SetSpeedsDenied(role) THEN [g EXCEPT !.out = "return"]
               ELSE LET start  == PyFind(command, QuoteComma, 0) + 2
                        end    == PyFind(command, RParen, start)
                        tokens == PySplit(PySlice(command, start, end), Comma)
                    IN  IF \E k \in 1 .. Len(tokens) : ~IsFloat(tokens[k])
                        THEN [g EXCEPT !.out = "raise"]
                        ELSE LET speeds == [k \in 1 .. Len(tokens) |-> FloatVal(tokens[k])]
                                 r      == set_speeds(g.customData, act, role, speeds)
                             IN  [g EXCEPT !.customData = r.customData,
                                           !.out = IF r.raised THEN "raise" ELSE @]
          [] kind = "commentate" ->
               IF CommentateDenied(role) THEN [g EXCEPT !.out = "return"]
               ELSE LET start == PyFind(command, QuoteComma, 0) + 4
                    IN  [g EXCEPT !.comments_ = DequeAppend(@,
                             [stamp |-> now, text |-> PySlice(command, start, -2)])]
          [] kind = "report" ->
               IF ReportDenied(role) THEN [g EXCEPT !.out = "return"]
               ELSE LET start == PyFind(command, QuoteComma, 0) + 2
                    IN  [g EXCEPT !.report = <<PySlice(command, start, -1)>>]
          [] OTHER -> g

\* one complete command: resolve the role, bind the session, dispatch; the
\* history entry records what the command changed
HandleCommand(g, act, now, client, command) ==
    LET role == get_role(command)
        g1   == [g EXCEPT !.role_client[role] = client]
        g2   == Dispatch(g1, act, now, client, command, role)
        entry == [client |-> client, cmd |-> command, role |-> role,
                  kind |-> CommandKind(command),
                  outcome |-> g2.out,
                  dWheels |-> {t \in TEAMS : g2.customData[t] # g.customData[t]},
                  dComments |-> g2.comments_ # g.comments_,
                  dReport |-> g2.report # g.report,
                  dReady |-> g2.ready # g.ready,
                  dBind |-> g2.role_client # g.role_client,
                  dSent |-> g2.sent # g.sent]
    IN  [g2 EXCEPT !.handled = Append(@, entry)]

\* the for loop of callback over message.split('aiwc.')
RECURSIVE CallbackLoop(_, _, _, _, _, _)
CallbackLoop(g, act, now, client, data, i) ==
    IF i > Len(data) \/ g.out # "loop" THEN g
    ELSE LET command == data[i]
         IN  IF command = <<>> THEN CallbackLoop(g, act, now, client, data, i + 1)
             ELSE IF ~PyEndsWith(command, RParen)
             THEN CallbackLoop([g EXCEPT !.unprocessed = @ \o Marker \o command],
                               act, now, client, data, i + 1)
             ELSE CallbackLoop(HandleCommand(g, act, now, client, command),
                               act, now, client, data, i + 1)

\* callback(client, message): g.unprocessed is the return value when g.out is
\* not "raise"
callback(g, act, now, client, message) ==
    LET g0 == [g EXCEPT !.unprocessed = <<>>, !.out = "loop"]
    IN  IF ~PyStartsWith(message, Marker) THEN [g0 EXCEPT !.out = "return"]
        ELSE CallbackLoop(g0, act, now, client, PySplit(message, Marker), 1)


-----------------------------------------------------------------------------
(* What clients send: sample streams over the protocol's alphabet *)

Clients == {"c1"}

Call(name, key, rest) == Marker \o name \o Quote \o key \o Quote \o rest \o RParen
TenOnes == <<",", "1", ",", "1", ",", "1", ",", "1", ",", "1",
             ",", "1", ",", "1", ",", "1", ",", "1", ",", "1">>
TenTwos == <<",", "2", ",", "2", ",", "2", ",", "2", ",", "2",
             ",", "2", ",", "2", ",", "2", ",", "2", ",", "2">>
Said(text) == <<",", " ", "\"">> \o text \o <<"\"">>
BadKey == <<"X">>

\* the streams a client may send
Streams1 ==
    { Call(N_ready, RoleKey(TEAM_RED), <<>>),
      Call(N_ready, BadKey, <<>>),
      Call(N_get_info, BadKey, <<>>),
      Call(N_set_speeds, BadKey, TenOnes),
      Call(N_commentate, BadKey, Said(<<"h">>)) \o Call(N_ready, RoleKey(TEAM_RED), <<>>),
      Call(N_report, BadKey, <<",", "t">>),
      Call(N_set_speeds, RoleKey(COMMENTATOR), TenOnes)
          \o Call(N_ready, RoleKey(TEAM_RED), <<>>) \o Marker \o <<"r", "e", "a">>,
      Call(N_set_speeds, RoleKey(TEAM_RED), <<",", "1", ",", "2">>),
      Call(N_set_speeds, RoleKey(TEAM_RED), <<",", "a">>),
      Call(N_ready, RoleKey(TEAM_RED), <<>>)
          \o Call(N_commentate, RoleKey(COMMENTATOR), Said(<<"y">>))
          \o Call(N_report, RoleKey(REPORTER), <<",", "t">>),
      Call(N_set_speeds, RoleKey(TEAM_RED), TenOnes)
          \o Call(N_set_speeds, RoleKey(TEAM_BLUE), TenTwos),
      Call(N_report, RoleKey(COMMENTATOR), <<",", "t">>),
      Call(N_commentate, RoleKey(TEAM_RED), Said(<<"h">>)),
      Call(N_set_speeds, RoleKey(REPORTER), TenOnes),
      Call(N_commentate, RoleKey(COMMENTATOR), Said(<<"a", ")", "b">>)),
      <<"x">> \o Call(N_ready, RoleKey(TEAM_RED), <<>>),
      Marker \o <<"r", "e">> \o Call(N_get_info, RoleKey(TEAM_BLUE), <<>>) }

StreamsOf(c) == Streams1


-----------------------------------------------------------------------------
(* constants.py / player.py: field geometry, rule constants, formations.   *)
(* The file is not part of the sources at hand; the values below keep the  *)
(* proportions of the field (lengths in integer units, all even so that    *)
(* every half is exact; times in control periods).                         *)

FIELD_LENGTH == 80
FIELD_WIDTH == 48
GOAL_DEPTH == 4
GOAL_WIDTH == 10
PENALTY_AREA_DEPTH == 10
PENALTY_AREA_WIDTH == 18
WALL_THICKNESS == 1
CORNER_LENGTH == 2
KICKOFF_BORDER == 4
ROBOT_SIZE == 2
PA_THRESHOLD_A == 2
PA_THRESHOLD_D_Zero == 0 * NUMBER_OF_ROBOTS
PA_THRESHOLD_D == 3
DEADLOCK_THRESHOLD == 1
DEADLOCK_DURATION_MS == 2
KICKOFF_TIME_LIMIT_MS == 3
GOALKICK_TIME_LIMIT_MS == 3
CORNERKICK_TIME_LIMIT_MS == 3
PENALTYKICK_TIME_LIMIT_MS == 3
FALL_TIME_MS == 2
SENTOUT_DURATION_MS == 3
IOPA_TIME_LIMIT_MS == 2
GK_NIPA_TIME_LIMIT_MS == 2
PERIOD_MS == 1

STATE_DEFAULT == "STATE_DEFAULT"
STATE_KICKOFF == "STATE_KICKOFF"
STATE_GOALKICK == "STATE_GOALKICK"
STATE_CORNERKICK == "STATE_CORNERKICK"
STATE_PENALTYKICK == "STATE_PENALTYKICK"

NONE == "NONE"
GAME_START == "GAME_START"
SCORE_RED_TEAM == "SCORE_RED_TEAM"
SCORE_BLUE_TEAM == "SCORE_BLUE_TEAM"
GAME_END == "GAME_END"
DEADLOCK == "DEADLOCK"
GOALKICK == "GOALKICK"
CORNERKICK == "CORNERKICK"
PENALTYKICK == "PENALTYKICK"
HALFTIME == "HALFTIME"
EPISODE_END == "EPISODE_END"
SCORE_MYTEAM == SCORE_RED_TEAM
SCORE_OPPONENT == SCORE_BLUE_TEAM

\* BALL_POSTURE[...]: <<x, y>> as seen by team red
BALL_DEFAULT == <<0, 0>>
BALL_GOALKICK == <<-33, 0>>
BALL_CORNERKICK == <<-28, 15>>
BALL_PENALTYKICK == <<29, 0>>
BALL_RELOCATION_A == <<-15, 10>>
BALL_RELOCATION_B == <<-15, -10>>
BALL_RELOCATION_C == <<15, 10>>
BALL_RELOCATION_D == <<15, -10>>

\* constants.PI: angles are counted in quarter turns
PI == 2

\* ROBOT_FORMATION[formation][id]: <<x, y, th>> of robots 0..4 as seen by the
\* team itself (the second team's table entries are negated by reset)
ROBOT_FORMATION(formation) ==
    CASE formation = "DEFAULT" ->
           <<<<-38, 0, 1>>, <<-22, 10, 0>>, <<-22, -10, 0>>, <<-10, 10, 0>>, <<-10, -10, 0>>>>
      [] formation = "KICKOFF" ->
           <<<<-38, 0, 1>>, <<-22, 10, 0>>, <<-22, -10, 0>>, <<-10, 10, 0>>, <<-3, 0, 0>>>>
      [] formation = "GOALKICK_A" ->
           <<<<-36, 0, 1>>, <<-20, 14, 0>>, <<-20, -14, 0>>, <<-8, 10, 0>>, <<-8, -10, 0>>>>
      [] formation = "GOALKICK_D" ->
           <<<<-38, 0, 1>>, <<-24, 8, 0>>, <<-24, -8, 0>>, <<-12, 12, 0>>, <<-12, -12, 0>>>>
      [] formation = "CAD_AD" ->
           <<<<-38, 0, 1>>, <<-34, 6, 0>>, <<-34, -6, 0>>, <<-26, 8, 0>>, <<-26, 2, 0>>>>
      [] formation = "CAD_DA" ->
           <<<<-38, 0, 1>>, <<-32, 12, 0>>, <<-20, 4, 0>>, <<-14, 10, 0>>, <<-30, 17, 0>>>>
      [] formation = "CBC_AD" ->
           <<<<-38, 0, 1>>, <<-34, 6, 0>>, <<-34, -6, 0>>, <<-26, -2, 0>>, <<-26, -8, 0>>>>
      [] formation = "CBC_DA" ->
           <<<<-38, 0, 1>>, <<-32, -12, 0>>, <<-20, -4, 0>>, <<-14, -10, 0>>, <<-30, -17, 0>>>>
      [] formation = "CAD_AA" ->
           <<<<-38, 0, 1>>, <<-8, 12, 0>>, <<-8, -12, 0>>, <<20, -6, 0>>, <<30, -17, 0>>>>
      [] formation = "CAD_DD" ->
           <<<<-38, 0, 1>>, <<-30, 4, 0>>, <<-30, -4, 0>>, <<-22, 6, 0>>, <<-22, -6, 0>>>>
      [] formation = "CBC_AA" ->
           <<<<-38, 0, 1>>, <<-8, -12, 0>>, <<-8, 12, 0>>, <<20, 6, 0>>, <<30, 17, 0>>>>
      [] formation = "CBC_DD" ->
           <<<<-38, 0, 1>>, <<-30, -4, 0>>, <<-30, 4, 0>>, <<-22, -6, 0>>, <<-22, 6, 0>>>>
      [] formation = "PENALTYKICK_A" ->
           <<<<-38, 0, 1>>, <<-6, 12, 0>>, <<-6, -12, 0>>, <<-2, 6, 0>>, <<26, 0, 0>>>>
      [] OTHER -> \* PENALTYKICK_D
           <<<<-38, 0, 1>>, <<-8, 14, 0>>, <<-8, -14, 0>>, <<-4, 8, 0>>, <<-4, -8, 0>>>>

\* ROBOT_FOUL_POSTURE[id]: <<x, y, th>>, the foul zone outside the side line
ROBOT_FOUL_POSTURE ==
    <<<<-36, -30, 1>>, <<-32, -30, 0>>, <<-28, -30, 0>>, <<-24, -30, 0>>, <<-20, -30, 0>>>>


-----------------------------------------------------------------------------
(* Match-side operations.  They thread a record m holding the match-side   *)
(* fields of the supervisor (named as in the code), the robots' wheel      *)
(* commands and the backend's state.                                       *)

Sign(t) == IF t = TEAM_RED THEN 1 ELSE -1
Other(t) == IF t = TEAM_RED THEN TEAM_BLUE ELSE TEAM_RED
Abs(x) == IF x < 0 THEN -x ELSE x
HalfSign(m) == IF m.half_passed THEN -1 ELSE 1

NoTouch == [t \in TEAMS |-> [i \in IDS |-> FALSE]]
Zeros == [k \in 1 .. (2 * NUMBER_OF_ROBOTS) |-> 0]
ActiveOf(rb) == [t \in TEAMS |-> [i \in IDS |-> rb[t][i].active]]

\* get_ball_position: the ball in the frame of the current half
get_ball_position(m) == <<HalfSign(m) * m.ballW[1], HalfSign(m) * m.ballW[2]>>

\* math.atan2(sin a, cos a) of a rotation by a about the vertical axis: a
\* brought into (-PI, PI]
Atan2OfTurn(a) == ((a + PI - 1) % (2 * PI)) - PI + 1

\* "Squeeze the orientation range to [-PI, PI]"
RECURSIVE Squeeze(_)
Squeeze(th) ==
    IF th > PI THEN Squeeze(th - 2 * PI)
    ELSE IF th < -PI THEN Squeeze(th + 2 * PI)
    ELSE th

HalfTurn(m) == IF m.half_passed THEN PI ELSE 0

\* get_robot_posture: x, y, th in the frame of the current half, and the
\* standing flag
get_robot_posture(m, t, i) ==
    [x |-> HalfSign(m) * m.robW[t][i].x,
     y |-> HalfSign(m) * m.robW[t][i].y,
     th |-> Squeeze(HalfTurn(m) + Atan2OfTurn(m.robW[t][i].th) + PI \div 2),
     stand |-> m.robW[t][i].stand]

\* stop_robots: zero wheel speeds, which set_speeds applies to active robots only
stop_robots(m) ==
    [m EXCEPT !.customData =
        set_speeds(set_speeds(@, ActiveOf(m.robot), TEAM_RED, Zeros).customData,
                   ActiveOf(m.robot), TEAM_BLUE, Zeros).customData]

\* reset_ball(x, z): teleport the ball and reset its physics
reset_ball(m, pos) ==
    [m EXCEPT !.ballW = <<HalfSign(m) * pos[1], HalfSign(m) * pos[2]>>,
              !.ballV = 0]

\* relocate_ball(pos)
relocate_ball(m, pos) == reset_ball(m, pos)

\* reset_robot(team, id, x, y, z, th); z is the model's y
reset_robot(m, t, i, x, z, th) ==
    stop_robots([m EXCEPT
        !.robW[t][i] = [x |-> HalfSign(m) * x, y |-> HalfSign(m) * z,
                        th |-> th + HalfTurn(m), stand |-> TRUE],
        !.robot[t][i] = [active |-> TRUE, touch |-> FALSE, fall_time |-> m.time,
                         sentout_time |-> 0, niopa_time |-> m.time,
                         ipa_time |-> m.time]])

send_to_foulzone_KeepsWheels(m, t, i) ==
    [m EXCEPT !.robW[t][i] =
                  [x |-> HalfSign(m) * ROBOT_FOUL_POSTURE[i + 1][1] * Sign(t),
                   y |-> HalfSign(m) * ROBOT_FOUL_POSTURE[i + 1][2] * Sign(t),
                   th |-> HalfTurn(m) + ROBOT_FOUL_POSTURE[i + 1][3]
                            + (IF t = TEAM_RED THEN 0 ELSE PI) - PI \div 2,
                   stand |-> TRUE]]

\* send_to_foulzone(team, id): teleport only; the caller keeps the bookkeeping
send_to_foulzone(m, t, i) ==
    [m EXCEPT !.robW[t][i] =
                  [x |-> HalfSign(m) * ROBOT_FOUL_POSTURE[i + 1][1] * Sign(t),
                   y |-> HalfSign(m) * ROBOT_FOUL_POSTURE[i + 1][2] * Sign(t),
                   th |-> HalfTurn(m) + ROBOT_FOUL_POSTURE[i + 1][3]
                            + (IF t = TEAM_RED THEN 0 ELSE PI) - PI \div 2,
                   stand |-> TRUE],
              !.customData[t][i] = StoppedWheels]

\* return_to_field(team, id): teleport to the default formation position
return_to_field(m, t, i) ==
    [m EXCEPT !.robW[t][i] =
                  [x |-> HalfSign(m) * ROBOT_FORMATION("DEFAULT")[i + 1][1] * Sign(t),
                   y |-> HalfSign(m) * ROBOT_FORMATION("DEFAULT")[i + 1][2] * Sign(t),
                   th |-> HalfTurn(m) + ROBOT_FORMATION("DEFAULT")[i + 1][3]
                            + (IF t = TEAM_RED THEN 0 ELSE PI) - PI \div 2,
                   stand |-> TRUE],
              !.customData[t][i] = StoppedWheels]

\* the ball position reset() chooses for team red's formation
ResetBallPosture(red_formation) ==
    CASE red_formation \in {"DEFAULT", "KICKOFF"} -> BALL_DEFAULT
      [] red_formation = "GOALKICK_A" -> BALL_GOALKICK
      [] red_formation = "GOALKICK_D" -> <<-BALL_GOALKICK[1], BALL_GOALKICK[2]>>
      [] red_formation \in {"CAD_AD", "CAD_DA"} -> BALL_CORNERKICK
      [] red_formation \in {"CBC_AD", "CBC_DA"} ->
           <<BALL_CORNERKICK[1], -BALL_CORNERKICK[2]>>
      [] red_formation \in {"CAD_AA", "CAD_DD"} ->
           <<-BALL_CORNERKICK[1], -BALL_CORNERKICK[2]>>
      [] red_formation \in {"CBC_AA", "CBC_DD"} ->
           <<-BALL_CORNERKICK[1], BALL_CORNERKICK[2]>>
      [] red_formation = "PENALTYKICK_A" -> BALL_PENALTYKICK
      [] OTHER -> <<-BALL_PENALTYKICK[1], BALL_PENALTYKICK[2]>>

\* the robot loop of reset(): team red's robots 0..4, then team blue's
RECURSIVE reset_robots_from(_, _, _, _)
reset_robots_from(m, red_formation, blue_formation, k) ==
    IF k >= 2 * NUMBER_OF_ROBOTS THEN m
    ELSE LET t == k \div NUMBER_OF_ROBOTS
             i == k % NUMBER_OF_ROBOTS
             formation == IF t = TEAM_RED THEN red_formation ELSE blue_formation
         IN  reset_robots_from(
                 reset_robot(m, t, i, ROBOT_FORMATION(formation)[i + 1][1] * Sign(t),
                             ROBOT_FORMATION(formation)[i + 1][2] * Sign(t),
                             ROBOT_FORMATION(formation)[i + 1][3]
                                 + (IF t = TEAM_RED THEN 0 ELSE PI) - PI \div 2),
                 red_formation, blue_formation, k + 1)

\* reset(red_formation, blue_formation)
reset(m, red_formation, blue_formation) ==
    [reset_robots_from(reset_ball(m, ResetBallPosture(red_formation)),
                       red_formation, blue_formation, 0)
        EXCEPT !.recent_touch = NoTouch,
               !.deadlock_time = m.time,
               !.touchQ = <<>>]

lock_all_robots_Unlock(m, locked) ==
    [m EXCEPT !.robot = [t \in TEAMS |-> [i \in IDS |->
                            [m.robot[t][i] EXCEPT !.active = TRUE]]]]

\* lock_all_robots(locked)
lock_all_robots(m, locked) ==
    [m EXCEPT !.robot = [t \in TEAMS |-> [i \in IDS |->
                            [m.robot[t][i] EXCEPT !.active = ~locked]]]]

LockAllBut_None(m, t, i) == lock_all_robots(m, TRUE)

\* lock_all_robots(True) followed by robot[t][i]['active'] = True
LockAllBut(m, t, i) ==
    [lock_all_robots(m, TRUE) EXCEPT !.robot[t][i].active = TRUE]

\* the match-side state run() builds before its loop
BlankRobot ==
    [active |-> TRUE, touch |-> FALSE, fall_time |-> 0, sentout_time |-> 0,
     niopa_time |-> 0, ipa_time |-> 0]

NoPhaseTimes == [kickoff |-> 0, goalkick |-> 0, cornerkick |-> 0, penaltykick |-> 0]

MatchInit ==
    LET m0 == [time |-> 0, score |-> [t \in TEAMS |-> 0], half_passed |-> FALSE,
               reset_reason |-> NONE, game_state |-> STATE_KICKOFF,
               ball_ownership |-> TEAM_RED,
               robot |-> [t \in TEAMS |-> [i \in IDS |-> BlankRobot]],
               recent_touch |-> NoTouch, deadlock_time |-> 0,
               phase_time |-> NoPhaseTimes, ball_position |-> BALL_DEFAULT,
               ballW |-> BALL_DEFAULT, ballV |-> 0,
               robW |-> [t \in TEAMS |-> [i \in IDS |-> [x |-> 0, y |-> 0, th |-> 0, stand |-> TRUE]]],
               touchQ |-> <<>>, published |-> <<>>,
               config |-> [deadlock |-> TRUE, repeat |-> FALSE],
               customData |-> [t \in TEAMS |-> [i \in IDS |-> StoppedWheels]]]
    IN  LockAllBut(reset(m0, "KICKOFF", "DEFAULT"), TEAM_RED, 4)


-----------------------------------------------------------------------------
(* Ownership tie-breaks: get_corner_ownership, get_pa_ownership *)

\* math.sqrt, kept to 1/100 of a length unit: the largest r with r*r <= 10000*v
RECURSIVE SqrtBetween(_, _, _)
SqrtBetween(v, lo, hi) ==
    IF lo >= hi THEN lo
    ELSE LET mid == (lo + hi + 1) \div 2
         IN  IF mid * mid <= v THEN SqrtBetween(v, mid, hi)
             ELSE SqrtBetween(v, lo, mid - 1)

Sqrt100(v) == SqrtBetween(10000 * v, 0, 100 * (FIELD_LENGTH + FIELD_WIDTH))

DistanceSquared(x, y, bx, by) == (x - bx) * (x - bx) + (y - by) * (y - by)

\* the loop of get_corner_ownership over teams and ids, from robot k on;
\* acc is [count, distance], each indexed by team
RECURSIVE corner_tally(_, _, _)
corner_tally(m, k, acc) ==
    IF k >= 2 * NUMBER_OF_ROBOTS THEN acc
    ELSE LET t   == k \div NUMBER_OF_ROBOTS
             i   == k % NUMBER_OF_ROBOTS
             b   == get_ball_position(m)
             s_x == IF b[1] > 0 THEN 1 ELSE -1
             s_y == IF b[2] > 0 THEN 1 ELSE -1
             p   == get_robot_posture(m, t, i)
         IN  IF ~m.robot[t][i].active THEN corner_tally(m, k + 1, acc)
             ELSE IF /\ s_x * p.x > FIELD_LENGTH \div 2 - PENALTY_AREA_DEPTH
                     /\ s_y * p.y > PENALTY_AREA_WIDTH \div 2
             THEN corner_tally(m, k + 1,
                      [acc EXCEPT !.count[t] = @ + 1,
                                  !.distance[t] = @ + Sqrt100(DistanceSquared(p.x, p.y, b[1], b[2]))])
             ELSE corner_tally(m, k + 1, acc)

NoTally == [count |-> [t \in TEAMS |-> 0], distance |-> [t \in TEAMS |-> 0]]

get_corner_ownership_Keep(m) == m.ball_ownership

get_corner_ownership(m) ==
    LET ball_x == get_ball_position(m)[1]
        Decide(r) ==
            IF r.count[0] > r.count[1] THEN 0
            ELSE IF r.count[1] > r.count[0] THEN 1
            ELSE IF r.distance[0] < r.distance[1] THEN 0
            ELSE IF r.distance[1] < r.distance[0] THEN 1
            ELSE IF ball_x > 0 THEN 0 ELSE 1
    IN  Decide(corner_tally(m, 0, NoTally))

\* the loop of get_pa_ownership
RECURSIVE pa_tally(_, _, _)
pa_tally(m, k, acc) ==
    IF k >= 2 * NUMBER_OF_ROBOTS THEN acc
    ELSE LET t   == k \div NUMBER_OF_ROBOTS
             i   == k % NUMBER_OF_ROBOTS
             b   == get_ball_position(m)
             s_x == IF b[1] > 0 THEN 1 ELSE -1
             p   == get_robot_posture(m, t, i)
         IN  IF ~m.robot[t][i].active THEN pa_tally(m, k + 1, acc)
             ELSE IF /\ s_x * p.x > FIELD_LENGTH \div 2 - PENALTY_AREA_DEPTH
                     /\ Abs(p.y) < PENALTY_AREA_WIDTH \div 2
             THEN pa_tally(m, k + 1,
                      [acc EXCEPT !.count[t] = @ + 1,
                                  !.distance[t] = @ + Sqrt100(DistanceSquared(p.x, p.y, b[1], b[2]))])
             ELSE pa_tally(m, k + 1, acc)

get_pa_ownership_FartherWins(m) ==
    LET ball_x == get_ball_position(m)[1]
        Decide(r) ==
            IF r.count[0] > r.count[1] THEN 0
            ELSE IF r.count[1] > r.count[0] THEN 1
            ELSE IF r.distance[0] > r.distance[1] THEN 0
            ELSE IF r.distance[1] > r.distance[0] THEN 1
            ELSE IF ball_x > 0 THEN 0 ELSE 1
    IN  Decide(pa_tally(m, 0, NoTally))

get_pa_ownership(m) ==
    LET ball_x == get_ball_position(m)[1]
        Decide(r) ==
            IF r.count[0] > r.count[1] THEN 0
            ELSE IF r.count[1] > r.count[0] THEN 1
            ELSE IF r.distance[0] < r.distance[1] THEN 0
            ELSE IF r.distance[1] < r.distance[0] THEN 1
            ELSE IF ball_x > 0 THEN 0 ELSE 1
    IN  Decide(pa_tally(m, 0, NoTally))

-----------------------------------------------------------------------------
(* Field geometry and proximity tests *)

\* robot_in_field(team, id)
robot_in_field(m, t, i) ==
    LET p == get_robot_posture(m, t, i)
    IN  IF Abs(p.y) < GOAL_WIDTH \div 2
        THEN ~(Abs(p.x) > FIELD_LENGTH \div 2 + GOAL_DEPTH)
        ELSE ~(Abs(p.x) > FIELD_LENGTH \div 2)

\* ball_in_field(); the corner cut abs_y > border_y is cross-multiplied by the
\* positive ce_x - cs_x
ball_in_field(m) ==
    LET pos   == get_ball_position(m)
        abs_x == Abs(pos[1])
        abs_y == Abs(pos[2])
        cs_x  == FIELD_LENGTH \div 2 - CORNER_LENGTH
        cs_y  == FIELD_WIDTH \div 2 + WALL_THICKNESS
        ce_x  == FIELD_LENGTH \div 2 + WALL_THICKNESS
        ce_y  == FIELD_WIDTH \div 2 - CORNER_LENGTH
    IN  IF /\ abs_x > FIELD_LENGTH \div 2 + WALL_THICKNESS
           /\ abs_y > GOAL_WIDTH \div 2 + WALL_THICKNESS
        THEN FALSE
        ELSE IF abs_y > FIELD_WIDTH \div 2 + WALL_THICKNESS THEN FALSE
        ELSE IF /\ cs_x < abs_x /\ abs_x < ce_x
                /\ (abs_y - ce_y) * (ce_x - cs_x) > (abs_x - ce_x) * (ce_y - cs_y)
        THEN FALSE
        ELSE TRUE

\* any_object_nearby(target_x, target_y, 1.5 * size): dist_sq < (1.5 * size)^2,
\* multiplied by 4
any_object_nearby(m, target_x, target_y, size) ==
    LET Within(x, y) ==
            4 * DistanceSquared(target_x, target_y, x, y) < 9 * size * size
        b == get_ball_position(m)
    IN  \/ Within(b[1], b[2])
        \/ \E t \in TEAMS, i \in IDS :
              Within(get_robot_posture(m, t, i).x, get_robot_posture(m, t, i).y)

check_penalty_area_CountsAll(m) ==
    LET b      == get_ball_position(m)
        ball_x == b[1]
        ball_y == b[2]
        s_x    == IF ball_x > 0 THEN 1 ELSE -1
        robot_count == [t \in TEAMS |-> Cardinality({i \in IDS :
            /\ s_x * get_robot_posture(m, t, i).x > FIELD_LENGTH \div 2 - PENALTY_AREA_DEPTH
            /\ Abs(get_robot_posture(m, t, i).y) < PENALTY_AREA_WIDTH \div 2})]
    IN  IF \/ Abs(ball_x) < FIELD_LENGTH \div 2 - PENALTY_AREA_DEPTH
           \/ Abs(ball_y) > PENALTY_AREA_WIDTH \div 2
        THEN [hit |-> FALSE, m |-> m]
        ELSE IF ball_x < 0
        THEN IF robot_count[TEAM_RED] > PA_THRESHOLD_D
             THEN [hit |-> TRUE, m |-> [m EXCEPT !.ball_ownership = TEAM_BLUE]]
             ELSE IF robot_count[TEAM_BLUE] > PA_THRESHOLD_A
             THEN [hit |-> TRUE, m |-> [m EXCEPT !.ball_ownership = TEAM_RED]]
             ELSE [hit |-> FALSE, m |-> m]
        ELSE IF robot_count[TEAM_BLUE] > PA_THRESHOLD_D
             THEN [hit |-> TRUE, m |-> [m EXCEPT !.ball_ownership = TEAM_RED]]
             ELSE IF robot_count[TEAM_RED] > PA_THRESHOLD_A
             THEN [hit |-> TRUE, m |-> [m EXCEPT !.ball_ownership = TEAM_BLUE]]
             ELSE [hit |-> FALSE, m |-> m]

\* check_penalty_area(): [hit, m], m carrying the ownership it may set
check_penalty_area(m) ==
    LET b      == get_ball_position(m)
        ball_x == b[1]
        ball_y == b[2]
        s_x    == IF ball_x > 0 THEN 1 ELSE -1
        robot_count == [t \in TEAMS |-> Cardinality({i \in IDS :
            /\ m.robot[t][i].active
            /\ s_x * get_robot_posture(m, t, i).x > FIELD_LENGTH \div 2 - PENALTY_AREA_DEPTH
            /\ Abs(get_robot_posture(m, t, i).y) < PENALTY_AREA_WIDTH \div 2})]
    IN  IF \/ Abs(ball_x) < FIELD_LENGTH \div 2 - PENALTY_AREA_DEPTH
           \/ Abs(ball_y) > PENALTY_AREA_WIDTH \div 2
        THEN [hit |-> FALSE, m |-> m]
        ELSE IF ball_x < 0
        THEN IF robot_count[TEAM_RED] > PA_THRESHOLD_D
             THEN [hit |-> TRUE, m |-> [m EXCEPT !.ball_ownership = TEAM_BLUE]]
             ELSE IF robot_count[TEAM_BLUE] > PA_THRESHOLD_A
             THEN [hit |-> TRUE, m |-> [m EXCEPT !.ball_ownership = TEAM_RED]]
             ELSE [hit |-> FALSE, m |-> m]
        ELSE IF robot_count[TEAM_BLUE] > PA_THRESHOLD_D
             THEN [hit |-> TRUE, m |-> [m EXCEPT !.ball_ownership = TEAM_RED]]
             ELSE IF robot_count[TEAM_RED] > PA_THRESHOLD_A
             THEN [hit |-> TRUE, m |-> [m EXCEPT !.ball_ownership = TEAM_BLUE]]
             ELSE [hit |-> FALSE, m |-> m]

-----------------------------------------------------------------------------
(* Frames *)

generate_frame_NoRemap(m, team, reason) ==
    LET opponent == Other(team)
        rr == IF reason # None THEN reason ELSE m.reset_reason
        s  == IF team = TEAM_RED THEN 1 ELSE -1
        Row(c) == [i \in IDS |->
                     [x |-> s * get_robot_posture(m, c, i).x,
                      y |-> s * get_robot_posture(m, c, i).y,
                      th |-> get_robot_posture(m, c, i).th
                               + (IF team = TEAM_RED THEN 0 ELSE PI),
                      active |-> m.robot[c][i].active,
                      touch |-> m.robot[c][i].touch]]
    IN  [time |-> m.time,
         score |-> <<m.score[team], m.score[opponent]>>,
         reset_reason |-> rr,
         game_state |-> m.game_state,
         ball_ownership |-> (m.ball_ownership = team),
         half_passed |-> m.half_passed,
         coordinates |-> <<Row(team), Row(opponent),
                           <<s * m.ball_position[1], s * m.ball_position[2]>>>>]

\* generate_frame(team, reset_reason); the sub-images are left out
generate_frame(m, team, reason) ==
    LET opponent == Other(team)
        rr == IF reason # None THEN reason ELSE m.reset_reason
        s  == IF team = TEAM_RED THEN 1 ELSE -1
        Row(c) == [i \in IDS |->
                     [x |-> s * get_robot_posture(m, c, i).x,
                      y |-> s * get_robot_posture(m, c, i).y,
                      th |-> get_robot_posture(m, c, i).th
                               + (IF team = TEAM_RED THEN 0 ELSE PI),
                      active |-> m.robot[c][i].active,
                      touch |-> m.robot[c][i].touch]]
    IN  [time |-> m.time,
         score |-> <<m.score[team], m.score[opponent]>>,
         reset_reason |-> IF team = TEAM_BLUE /\ rr = SCORE_RED_TEAM THEN SCORE_OPPONENT
                          ELSE IF team = TEAM_BLUE /\ rr = SCORE_BLUE_TEAM THEN SCORE_MYTEAM
                          ELSE rr,
         game_state |-> m.game_state,
         ball_ownership |-> (m.ball_ownership = team),
         half_passed |-> m.half_passed,
         coordinates |-> <<Row(team), Row(opponent),
                           <<s * m.ball_position[1], s * m.ball_position[2]>>>>]

FrameTeam_Red(role) == TEAM_RED

\* publish_current_frame: frame_team_blue if role == TEAM_BLUE else frame_team_red
FrameTeam(role) == IF role = TEAM_BLUE THEN TEAM_BLUE ELSE TEAM_RED

\* publish_current_frame(reset_reason): one frame to every bound role, in the
\* order of ROLES; TcpServer.send skips a socket that was closed
RECURSIVE publish_from(_, _, _)
publish_from(m, reason, role) ==
    IF role > REPORTER THEN m
    ELSE IF m.role_client[role] # None /\ m.role_client[role] \notin m.closed
    THEN publish_from(
             [m EXCEPT !.published = Append(@,
                 [to |-> m.role_client[role], role |-> role, at |-> m.waits,
                  frame |-> generate_frame(m, FrameTeam(role), reason)])],
             reason, role + 1)
    ELSE publish_from(m, reason, role + 1)

publish_current_frame(m, reason) == publish_from(m, reason, TEAM_RED)

-----------------------------------------------------------------------------
(* One pass of the loop of run().  During a pass the record m also carries  *)
(*   alive     - FALSE once a step() inside the pass returned -1 (break);   *)
(*   waits     - the number of step() calls the pass has made so far;       *)
(*   stop      - which of them the backend answers with -1 (0: none);       *)
(*   fired     - history: the rules that restarted or relocated play;       *)
(*   seen      - history: what the rules read when they decided.            *)

Wait_Late(m) ==
    IF ~m.alive THEN m
    ELSE IF m.waits = m.stop THEN [m EXCEPT !.alive = FALSE, !.waits = @ + 1]
    ELSE [m EXCEPT !.waits = @ + 1]

\* self.step(WAIT_..._MS) inside a pass.  All wheel commands are zero while it
\* runs, so it leaves every posture as the rules placed it.
Wait(m) ==
    IF ~m.alive THEN m
    ELSE IF m.waits + 1 = m.stop THEN [m EXCEPT !.alive = FALSE, !.waits = @ + 1]
    ELSE [m EXCEPT !.waits = @ + 1]

\* get_robot_touch_ball(): drain the receiver queue, or-ing the packets
get_robot_touch_ball(m) ==
    [t \in TEAMS |-> [i \in IDS |-> \E k \in 1 .. Len(m.touchQ) : m.touchQ[k][t][i]]]

\* run(): update touch statuses of robots
update_touch(m) ==
    LET touch == get_robot_touch_ball(m)
    IN  [m EXCEPT !.touchQ = <<>>,
                  !.robot = [t \in TEAMS |-> [i \in IDS |->
                               [m.robot[t][i] EXCEPT !.touch = touch[t][i]]]],
                  !.recent_touch = IF \E t \in TEAMS, i \in IDS : touch[t][i]
                                   THEN touch ELSE @]

\* the bookkeeping around send_to_foulzone
send_out(m, t, i) ==
    [send_to_foulzone([m EXCEPT !.robot[t][i].active = FALSE], t, i)
        EXCEPT !.robot[t][i].sentout_time = m.time]

\* run(): check if any of robots has fallen
RECURSIVE check_fallen(_, _)
check_fallen(m, k) ==
    IF k >= 2 * NUMBER_OF_ROBOTS THEN m
    ELSE LET t == k \div NUMBER_OF_ROBOTS
             i == k % NUMBER_OF_ROBOTS
         IN  IF /\ m.robot[t][i].active
                /\ m.time - m.robot[t][i].fall_time >= FALL_TIME_MS
             THEN check_fallen([send_out(m, t, i) EXCEPT
                                   !.seen.fallen = @ \cup {<<t, i>>}], k + 1)
             ELSE IF get_robot_posture(m, t, i).stand
             THEN check_fallen([m EXCEPT !.robot[t][i].fall_time = m.time], k + 1)
             ELSE check_fallen(m, k + 1)

\* run(): check if any of robots has left the field
RECURSIVE check_left_field(_, _)
check_left_field(m, k) ==
    IF k >= 2 * NUMBER_OF_ROBOTS THEN m
    ELSE LET t == k \div NUMBER_OF_ROBOTS
             i == k % NUMBER_OF_ROBOTS
         IN  IF m.robot[t][i].active /\ ~robot_in_field(m, t, i)
             THEN check_left_field(send_out(m, t, i), k + 1)
             ELSE check_left_field(m, k + 1)

is_in_opponent_goal(x, y) ==
    x > FIELD_LENGTH \div 2 /\ Abs(y) < GOAL_WIDTH \div 2

is_in_opponent_penalty_area(x, y) ==
    /\ x <= FIELD_LENGTH \div 2
    /\ x > FIELD_LENGTH \div 2 - PENALTY_AREA_DEPTH
    /\ Abs(y) < PENALTY_AREA_WIDTH \div 2

\* run(): check if any of robots are in the opponent's penalty area
RECURSIVE check_iopa(_, _)
check_iopa(m, k) ==
    IF k >= 2 * NUMBER_OF_ROBOTS THEN m
    ELSE LET t    == k \div NUMBER_OF_ROBOTS
             i    == k % NUMBER_OF_ROBOTS
             pos  == get_robot_posture(m, t, i)
             sign == Sign(t)
             x    == sign * pos.x
             y    == sign * pos.y
             ix   == sign * ROBOT_FORMATION("DEFAULT")[i + 1][1]
             iy   == sign * ROBOT_FORMATION("DEFAULT")[i + 1][2]
         IN  IF is_in_opponent_goal(x, y) \/ is_in_opponent_penalty_area(x, y)
             THEN IF /\ m.time - m.robot[t][i].niopa_time >= IOPA_TIME_LIMIT_MS
                     /\ ~any_object_nearby(m, ix, iy, ROBOT_SIZE)
                  THEN check_iopa([return_to_field(m, t, i)
                                     EXCEPT !.robot[t][i].niopa_time = m.time], k + 1)
                  ELSE check_iopa(m, k + 1)
             ELSE check_iopa([m EXCEPT !.robot[t][i].niopa_time = m.time], k + 1)

is_in_goal(x, y) ==
    x < -(FIELD_LENGTH \div 2) /\ Abs(y) < GOAL_WIDTH \div 2

is_in_penalty_area(x, y) ==
    /\ x >= -(FIELD_LENGTH \div 2)
    /\ x < -(FIELD_LENGTH \div 2) + PENALTY_AREA_DEPTH
    /\ Abs(y) < PENALTY_AREA_WIDTH \div 2

\* run(): check if the goalkeeper is in the own penalty area
RECURSIVE check_goalkeeper(_, _)
check_goalkeeper(m, t) ==
    IF t > TEAM_BLUE THEN m
    ELSE LET pos  == get_robot_posture(m, t, 0)
             sign == Sign(t)
             x    == sign * pos.x
             y    == sign * pos.y
             ix   == sign * ROBOT_FORMATION("DEFAULT")[1][1]
             iy   == sign * ROBOT_FORMATION("DEFAULT")[1][2]
         IN  IF is_in_goal(x, y) \/ is_in_penalty_area(x, y)
             THEN check_goalkeeper([m EXCEPT !.robot[t][0].ipa_time = m.time], t + 1)
             ELSE IF /\ m.time - m.robot[t][0].ipa_time >= GK_NIPA_TIME_LIMIT_MS
                     /\ ~any_object_nearby(m, ix, iy, ROBOT_SIZE)
             THEN check_goalkeeper([return_to_field(m, t, 0)
                                      EXCEPT !.robot[t][0].ipa_time = m.time], t + 1)
             ELSE check_goalkeeper(m, t + 1)

check_sentout_Skip(m, k) == m

\* run(): check if any of robots should return to the field
RECURSIVE check_sentout(_, _)
check_sentout(m, k) ==
    IF ~m.alive \/ k >= 2 * NUMBER_OF_ROBOTS THEN m
    ELSE LET t == k \div NUMBER_OF_ROBOTS
             i == k % NUMBER_OF_ROBOTS
             s == Sign(t)
             x == ROBOT_FORMATION("DEFAULT")[i + 1][1] * s
             y == ROBOT_FORMATION("DEFAULT")[i + 1][2] * s
         IN  IF m.robot[t][i].sentout_time = 0 THEN check_sentout(m, k + 1)
             ELSE IF /\ m.time - m.robot[t][i].sentout_time >= SENTOUT_DURATION_MS
                     /\ ~any_object_nearby(m, x, y, ROBOT_SIZE)
             THEN check_sentout(
                      [return_to_field([m EXCEPT !.robot[t][i].active = TRUE], t, i)
                          EXCEPT !.robot[t][i].sentout_time = 0], k + 1)
             ELSE check_sentout(m, k + 1)

\* run(), DEFAULT: the goal test
InGoalMouth(b) ==
    Abs(b[1]) > FIELD_LENGTH \div 2 /\ Abs(b[2]) < GOAL_WIDTH \div 2

KickoffOwnerAfterGoal_Scorer(ball_x) == IF ball_x > 0 THEN TEAM_RED ELSE TEAM_BLUE

\* run(), DEFAULT: who kicks off after a goal
KickoffOwnerAfterGoal(ball_x) == IF ball_x > 0 THEN TEAM_BLUE ELSE TEAM_RED

ScoreAfterGoal_Both(score_, goaler) == [t \in TEAMS |-> score_[t] + 1]

\* run(), DEFAULT: self.score[goaler] += 1
ScoreAfterGoal(score_, goaler) == [score_ EXCEPT ![goaler] = @ + 1]

\* run(), DEFAULT: a goal
goal(m) ==
    LET ball_x == m.ball_position[1]
        goaler == IF ball_x > 0 THEN TEAM_RED ELSE TEAM_BLUE
        owner  == KickoffOwnerAfterGoal(ball_x)
        Kickoff(m1) ==
            IF ~m1.alive THEN m1
            ELSE LET m2 == [m1 EXCEPT !.game_state = STATE_KICKOFF,
                                      !.ball_ownership = owner,
                                      !.phase_time.kickoff = m1.time]
                 IN  Wait(LockAllBut(
                         IF owner = TEAM_RED THEN reset(m2, "KICKOFF", "DEFAULT")
                         ELSE reset(m2, "DEFAULT", "KICKOFF"), owner, 4))
        Resume(m4) ==
            IF ~m4.alive THEN m4
            ELSE [m4 EXCEPT !.reset_reason =
                     IF ball_x > 0 THEN SCORE_RED_TEAM ELSE SCORE_BLUE_TEAM]
    IN  Resume(Kickoff(Wait(stop_robots(
            [m EXCEPT !.score = ScoreAfterGoal(@, goaler),
                      !.fired = Append(@, "goal")]))))

\* run(), DEFAULT: ownership after the ball left the field
TouchCount(m, t) == Cardinality({i \in IDS : m.recent_touch[t][i]})

OwnerAfterExit_Toucher(m, ball_x) ==
    IF TouchCount(m, TEAM_RED) > TouchCount(m, TEAM_BLUE) THEN TEAM_RED
    ELSE IF TouchCount(m, TEAM_BLUE) > TouchCount(m, TEAM_RED) THEN TEAM_BLUE
    ELSE IF ball_x < 0 THEN TEAM_BLUE ELSE TEAM_RED

OwnerAfterExit(m, ball_x) ==
    IF TouchCount(m, TEAM_RED) > TouchCount(m, TEAM_BLUE) THEN TEAM_BLUE
    ELSE IF TouchCount(m, TEAM_BLUE) > TouchCount(m, TEAM_RED) THEN TEAM_RED
    ELSE IF ball_x < 0 THEN TEAM_BLUE ELSE TEAM_RED

\* run(), DEFAULT: the ball left the field
out_of_field(m) ==
    LET ball_x == m.ball_position[1]
        ball_y == m.ball_position[2]
        Restart(m1) ==
            IF ~m1.alive THEN m1
            ELSE LET owner == OwnerAfterExit(m1, ball_x)
                     GoalKick(red_formation, blue_formation) ==
                         [LockAllBut(reset([m1 EXCEPT !.ball_ownership = owner,
                                                      !.game_state = STATE_GOALKICK,
                                                      !.phase_time.goalkick = m1.time],
                                           red_formation, blue_formation), owner, 0)
                             EXCEPT !.reset_reason = GOALKICK]
                     CornerKick(red_formation, blue_formation) ==
                         [LockAllBut(reset([m1 EXCEPT !.ball_ownership = owner,
                                                      !.game_state = STATE_CORNERKICK,
                                                      !.phase_time.cornerkick = m1.time],
                                           red_formation, blue_formation), owner, 4)
                             EXCEPT !.reset_reason = CORNERKICK]
                 IN  Wait(IF ball_x < 0
                          THEN IF owner = TEAM_RED THEN GoalKick("GOALKICK_A", "GOALKICK_D")
                               ELSE IF ball_y > 0 THEN CornerKick("CAD_AD", "CAD_AA")
                               ELSE CornerKick("CBC_AD", "CBC_AA")
                          ELSE IF owner = TEAM_BLUE THEN GoalKick("GOALKICK_D", "GOALKICK_A")
                               ELSE IF ball_y > 0 THEN CornerKick("CBC_AA", "CBC_AD")
                               ELSE CornerKick("CAD_AA", "CAD_AD"))
    IN  Restart(Wait(stop_robots([m EXCEPT !.fired = Append(@, "out")])))

\* run(), DEFAULT: the restart chosen once the owner of a penalty-area
\* situation is known (after the penalty-area rule and after a deadlock there)
penalty_area_restart(m, ball_x) ==
    LET owner == m.ball_ownership
        GoalKick(red_formation, blue_formation) ==
            LockAllBut(reset([m EXCEPT !.game_state = STATE_GOALKICK,
                                       !.reset_reason = GOALKICK,
                                       !.phase_time.goalkick = m.time],
                             red_formation, blue_formation), owner, 0)
        PenaltyKick(red_formation, blue_formation) ==
            LockAllBut(reset([m EXCEPT !.game_state = STATE_PENALTYKICK,
                                       !.reset_reason = PENALTYKICK,
                                       !.phase_time.penaltykick = m.time],
                             red_formation, blue_formation), owner, 4)
    IN  IF ~m.alive THEN m
        ELSE IF ball_x < 0 /\ owner = TEAM_RED THEN GoalKick("GOALKICK_A", "GOALKICK_D")
        ELSE IF ball_x > 0 /\ owner = TEAM_BLUE THEN GoalKick("GOALKICK_D", "GOALKICK_A")
        ELSE IF ball_x < 0 /\ owner = TEAM_BLUE
        THEN PenaltyKick("PENALTYKICK_D", "PENALTYKICK_A")
        ELSE PenaltyKick("PENALTYKICK_A", "PENALTYKICK_D")

\* run(), DEFAULT: the penalty-area rule
penalty_area_From(m0) ==
    IF ~check_penalty_area(m0).hit THEN m0
    ELSE Wait(penalty_area_restart(
             Wait(stop_robots([check_penalty_area(m0).m EXCEPT
                                  !.fired = Append(@, "penalty_area")])),
             get_ball_position(m0)[1]))

penalty_area(m) ==
    IF ~m.alive THEN m
    ELSE penalty_area_From(
             [m EXCEPT !.seen.pa =
                 [entered |-> TRUE, ball |-> get_ball_position(m),
                  active |-> ActiveOf(m.robot),
                  place |-> [t \in TEAMS |-> [i \in IDS |-> get_robot_posture(m, t, i)]],
                  owner |-> m.ball_ownership, state |-> m.game_state,
                  reason |-> m.reset_reason, fired |-> m.fired]])

\* deadlock_flag as run() derives it from config['rule']['deadlock']
deadlock_flag(rule_deadlock) == IF rule_deadlock THEN rule_deadlock ELSE TRUE

\* run(), DEFAULT: deadlock inside a penalty area
deadlock_penalty_area(m, ball_x) ==
    LET Resume(m2) ==
            IF ~m2.alive THEN m2 ELSE [m2 EXCEPT !.deadlock_time = m2.time]
    IN  Resume(Wait(penalty_area_restart(
            Wait(stop_robots([m EXCEPT !.ball_ownership = get_pa_ownership(m),
                                       !.fired = Append(@, "deadlock_pa")])),
            ball_x)))

\* run(), DEFAULT: deadlock in a corner region
deadlock_corner(m, ball_x, ball_y) ==
    LET Corner(m1) ==
            IF ~m1.alive THEN m1
            ELSE LET owner == m1.ball_ownership
                     m2 == [m1 EXCEPT !.game_state = STATE_CORNERKICK,
                                      !.phase_time.cornerkick = m1.time]
                 IN  Wait(LockAllBut(
                         IF ball_x < 0
                         THEN IF ball_y > 0
                              THEN IF owner = TEAM_RED THEN reset(m2, "CAD_DA", "CAD_DD")
                                   ELSE reset(m2, "CAD_AD", "CAD_AA")
                              ELSE IF owner = TEAM_RED THEN reset(m2, "CBC_DA", "CBC_DD")
                                   ELSE reset(m2, "CBC_AD", "CBC_AA")
                         ELSE IF ball_y > 0
                              THEN IF owner = TEAM_RED THEN reset(m2, "CBC_AA", "CBC_AD")
                                   ELSE reset(m2, "CBC_DD", "CBC_DA")
                              ELSE IF owner = TEAM_RED THEN reset(m2, "CAD_AA", "CAD_AD")
                                   ELSE reset(m2, "CAD_DD", "CAD_DA"),
                         owner, 4))
        Resume(m4) ==
            IF ~m4.alive THEN m4
            ELSE [m4 EXCEPT !.reset_reason = CORNERKICK, !.deadlock_time = m4.time]
    IN  Resume(Corner(Wait(stop_robots(
            [m EXCEPT !.ball_ownership = get_corner_ownership(m),
                      !.fired = Append(@, "deadlock_corner")]))))

RelocationAnchor_Mirrored(ball_x, ball_y) ==
    IF ball_x < 0
    THEN IF ball_y > 0 THEN BALL_RELOCATION_C ELSE BALL_RELOCATION_D
    ELSE IF ball_y > 0 THEN BALL_RELOCATION_A ELSE BALL_RELOCATION_B

\* run(), DEFAULT: where a deadlock in the general region puts the ball
RelocationAnchor(ball_x, ball_y) ==
    IF ball_x < 0
    THEN IF ball_y > 0 THEN BALL_RELOCATION_A ELSE BALL_RELOCATION_B
    ELSE IF ball_y > 0 THEN BALL_RELOCATION_C ELSE BALL_RELOCATION_D

\* flush_touch_ball()
flush_touch_ball(m) == [m EXCEPT !.touchQ = <<>>]

\* run(), DEFAULT: deadlock in the general region
deadlock_general(m, ball_x, ball_y) ==
    LET Relocate(m1) ==
            IF ~m1.alive THEN m1
            ELSE Wait(flush_touch_ball(
                     relocate_ball(m1, RelocationAnchor(ball_x, ball_y))))
        Resume(m2) ==
            IF ~m2.alive THEN m2
            ELSE [m2 EXCEPT !.reset_reason = DEADLOCK, !.deadlock_time = m2.time]
    IN  Resume(Relocate(Wait(stop_robots(
            [m EXCEPT !.fired = Append(@, "deadlock_general")]))))

\* run(), DEFAULT: the deadlock check
deadlock(m) ==
    IF ~m.alive \/ ~(m.reset_reason = NONE /\ deadlock_flag(m.config.deadlock)) THEN m
    ELSE LET b  == get_ball_position(m)
             m0 == [m EXCEPT !.seen.deadlock =
                       [entered |-> TRUE, active |-> ActiveOf(m.robot),
                        owner |-> m.ball_ownership, ball |-> b, speed |-> m.ballV,
                        still |-> m.time - m.deadlock_time]]
         IN  IF m.ballV >= DEADLOCK_THRESHOLD THEN [m0 EXCEPT !.deadlock_time = m.time]
             ELSE IF m.time - m.deadlock_time >= DEADLOCK_DURATION_MS
             THEN IF Abs(b[1]) > FIELD_LENGTH \div 2 - PENALTY_AREA_DEPTH
                  THEN IF Abs(b[2]) < PENALTY_AREA_WIDTH \div 2
                       THEN deadlock_penalty_area(m0, b[1])
                       ELSE deadlock_corner(m0, b[1], b[2])
                  ELSE deadlock_general(m0, b[1], b[2])
             ELSE m0

state_default_NoGoal(m) ==
    deadlock(penalty_area(check_sentout(
        IF ~ball_in_field(m) THEN out_of_field(m) ELSE m, 0)))

\* run(): the DEFAULT branch
state_default(m) ==
    deadlock(penalty_area(check_sentout(
        IF InGoalMouth(m.ball_position) THEN goal(m)
        ELSE IF ~ball_in_field(m) THEN out_of_field(m)
        ELSE m, 0)))

state_kickoff_KeepsTimer(m) ==
    LET Released == lock_all_robots([m EXCEPT !.game_state = STATE_DEFAULT], FALSE)
    IN  IF m.time - m.phase_time.kickoff >= KICKOFF_TIME_LIMIT_MS THEN Released
        ELSE IF m.ball_position[1] * m.ball_position[1] + m.ball_position[2] * m.ball_position[2]
                     > KICKOFF_BORDER * KICKOFF_BORDER THEN Released
        ELSE m

\* run(): the KICKOFF branch
state_kickoff(m) ==
    LET Released == lock_all_robots([m EXCEPT !.game_state = STATE_DEFAULT], FALSE)
    IN  [IF m.time - m.phase_time.kickoff >= KICKOFF_TIME_LIMIT_MS THEN Released
         ELSE IF m.ball_position[1] * m.ball_position[1] + m.ball_position[2] * m.ball_position[2]
                      > KICKOFF_BORDER * KICKOFF_BORDER THEN Released
         ELSE m
           EXCEPT !.deadlock_time = m.time]

\* run(): the GOALKICK branch
state_goalkick(m) ==
    LET Released == lock_all_robots([m EXCEPT !.game_state = STATE_DEFAULT], FALSE)
    IN  [IF m.time - m.phase_time.goalkick >= GOALKICK_TIME_LIMIT_MS THEN Released
         ELSE IF m.robot[m.ball_ownership][0].touch THEN Released
         ELSE m
           EXCEPT !.deadlock_time = m.time]

state_cornerkick_KickerOnly(m) ==
    LET Released == lock_all_robots([m EXCEPT !.game_state = STATE_DEFAULT], FALSE)
    IN  [IF m.time - m.phase_time.cornerkick >= CORNERKICK_TIME_LIMIT_MS THEN Released
         ELSE IF m.robot[m.ball_ownership][4].touch THEN Released
         ELSE m
           EXCEPT !.deadlock_time = m.time]

\* run(): the CORNERKICK branch
state_cornerkick(m) ==
    LET Released == lock_all_robots([m EXCEPT !.game_state = STATE_DEFAULT], FALSE)
    IN  [IF m.time - m.phase_time.cornerkick >= CORNERKICK_TIME_LIMIT_MS THEN Released
         ELSE IF \E i \in IDS : m.robot[m.ball_ownership][i].touch THEN Released
         ELSE m
           EXCEPT !.deadlock_time = m.time]

\* run(): the PENALTYKICK branch
state_penaltykick(m) ==
    LET Released == lock_all_robots([m EXCEPT !.game_state = STATE_DEFAULT], FALSE)
    IN  [IF m.time - m.phase_time.penaltykick >= PENALTYKICK_TIME_LIMIT_MS THEN Released
         ELSE IF m.robot[m.ball_ownership][4].touch THEN Released
         ELSE m
           EXCEPT !.deadlock_time = m.time]

\* run(): the branch on self.game_state
phase_rules(m) ==
    CASE m.game_state = STATE_DEFAULT -> state_default(m)
      [] m.game_state = STATE_KICKOFF -> state_kickoff(m)
      [] m.game_state = STATE_GOALKICK -> state_goalkick(m)
      [] m.game_state = STATE_CORNERKICK -> state_cornerkick(m)
      [] OTHER -> state_penaltykick(m)

\* run(): a regular pass, from the frame to the phase branch
regular_pass(m) ==
    LET Noted(m3) == [m3 EXCEPT !.seen.touch = m3.recent_touch,
                                !.seen.state = m3.game_state]
    IN  phase_rules(Noted(
            check_goalkeeper(check_iopa(check_left_field(check_fallen(
                update_touch([publish_current_frame(m, None)
                                 EXCEPT !.reset_reason = NONE]),
                0), 0), 0), TEAM_RED)))

\* run(): the first half is over
half_time(m) ==
    LET Kickoff(m1) ==
            IF ~m1.alive THEN m1
            ELSE Wait(LockAllBut(
                     reset([m1 EXCEPT !.half_passed = TRUE, !.ball_ownership = TEAM_BLUE,
                                      !.game_state = STATE_KICKOFF, !.time = 0,
                                      !.phase_time.kickoff = 0],
                           "DEFAULT", "KICKOFF"), TEAM_BLUE, 4))
        Resume(m3) ==
            IF ~m3.alive THEN m3 ELSE publish_current_frame(m3, GAME_START)
    IN  Resume(Kickoff(Wait(stop_robots(publish_current_frame(m, HALFTIME)))))

\* run(): the second half is over
game_over(m) ==
    LET m1 == IF m.config.repeat
              THEN [publish_current_frame(m, EPISODE_END)
                      EXCEPT !.reset_reason = EPISODE_END, !.half_passed = FALSE]
              ELSE publish_current_frame(m, GAME_END)
    IN  Wait(stop_robots(m1))

\* run(): the match starts once every role is ready
start_match(m) ==
    Wait(publish_current_frame([m EXCEPT !.ball_position = get_ball_position(m)],
                               GAME_START))

\* what a pass starts from: the supervisor's fields, self.ball_position read
\* afresh, and the pass's own bookkeeping
NoSeen ==
    [touch |-> NoTouch, state |-> None, fallen |-> {},
     pa |-> [entered |-> FALSE],
     deadlock |-> [entered |-> FALSE, active |-> NoTouch, owner |-> TEAM_RED,
                   ball |-> <<0, 0>>, speed |-> 0, still |-> 0]]

PassStart(m, stop, bound, gone) ==
    [alive |-> TRUE, waits |-> 0, stop |-> stop, fired |-> <<>>,
     seen |-> NoSeen, role_client |-> bound, closed |-> gone]
      @@ [m EXCEPT !.ball_position = get_ball_position(m), !.published = <<>>]

\* the length of a half, in control periods
MaxGameTime == 4

\* self.game_time: config['rule']['game_time'] if it is given, else the
\* default length
game_time ==
    IF "game_time" \in DOMAIN config THEN config.game_time * PERIOD_MS
    ELSE MaxGameTime * PERIOD_MS

-----------------------------------------------------------------------------
(* The simulation backend between two passes: the ball and the robots move, *)
(* robots touch the ball.  The backend is outside the program; its moves    *)
(* are choices from sample sets.                                            *)

EnvRobot == <<TEAM_RED, 1>>
OutsideSpot == [x |-> -42, y |-> 10, th |-> 0, stand |-> TRUE]

\* a move of the backend: where the ball is afterwards (<<>>: where it was),
\* its speed, what happens to robot EnvRobot, who touched the ball
EnvMove(ball, speed, event, touched) ==
    [ball |-> ball, speed |-> speed, event |-> event, touched |-> touched]

EnvMoves ==
    {EnvMove(<<>>, 0, "none", {}),
     EnvMove(<<6, 0>>, DEADLOCK_THRESHOLD, "none", {<<TEAM_RED, 4>>}),
     EnvMove(<<41, 0>>, DEADLOCK_THRESHOLD, "none", {}),
     EnvMove(<<-41, 3>>, DEADLOCK_THRESHOLD, "none", {<<TEAM_BLUE, 4>>}),
     EnvMove(<<42, 8>>, DEADLOCK_THRESHOLD, "none", {<<TEAM_RED, 4>>, <<TEAM_BLUE, 4>>}),
     EnvMove(<<-6, 5>>, 0, "none", {}),
     EnvMove(<<>>, 0, "fall", {}),
     EnvMove(<<>>, 0, "rise", {}),
     EnvMove(<<>>, DEADLOCK_THRESHOLD, "leave", {})}

Packet(S) == [t \in TEAMS |-> [i \in IDS |-> <<t, i>> \in S]]

\* self.step(self.timeStep, runTimer=True) when the backend carries on; the
\* move's event happens to robot who
AdvanceFor(m, move, who) ==
    [m EXCEPT !.time = @ + PERIOD_MS,
              !.ballW = IF move.ball = <<>> THEN @ ELSE move.ball,
              !.ballV = move.speed,
              !.robW[who[1]][who[2]] =
                  CASE move.event = "fall" -> [@ EXCEPT !.stand = FALSE]
                    [] move.event = "rise" -> [@ EXCEPT !.stand = TRUE]
                    [] move.event = "leave" -> OutsideSpot
                    [] OTHER -> @,
              !.touchQ = IF move.touched = {} THEN @
                         ELSE Append(@, Packet(move.touched))]

Advance(m, move) == AdvanceFor(m, move, EnvRobot)

-----------------------------------------------------------------------------
(* The supervisor's state as records, and back *)

MatchNow ==
    [time |-> time, score |-> score, half_passed |-> half_passed,
     reset_reason |-> reset_reason, game_state |-> game_state,
     ball_ownership |-> ball_ownership, robot |-> robot,
     recent_touch |-> recent_touch, deadlock_time |-> deadlock_time,
     phase_time |-> phase_time, ball_position |-> ball_position,
     ballW |-> ballW, ballV |-> ballV, robW |-> robW, touchQ |-> touchQ,
     published |-> published, config |-> config, customData |-> customData]

SetMatch(m) ==
    /\ time' = m.time
    /\ score' = m.score
    /\ half_passed' = m.half_passed
    /\ reset_reason' = m.reset_reason
    /\ game_state' = m.game_state
    /\ ball_ownership' = m.ball_ownership
    /\ robot' = m.robot
    /\ recent_touch' = m.recent_touch
    /\ deadlock_time' = m.deadlock_time
    /\ phase_time' = m.phase_time
    /\ ball_position' = m.ball_position
    /\ ballW' = m.ballW
    /\ ballV' = m.ballV
    /\ robW' = m.robW
    /\ touchQ' = m.touchQ
    /\ published' = m.published
    /\ config' = m.config

RpcNow ==
    [role_client |-> role_client, ready |-> ready, customData |-> customData,
     comments_ |-> comments_, report |-> report, sent |-> sent,
     handled |-> handled, unprocessed |-> <<>>, out |-> "loop"]

-----------------------------------------------------------------------------
(* SpecRpc: sessions and commands.                                         *)
(* The match side stands still in one of two states of the run loop: the   *)
(* state run() builds before its loop (waiting for ready, kickoff lock),   *)
(* or open play right after the first kickoff was released, where the      *)
(* four roles are bound to earlier sessions that send nothing more.        *)

OldClients == {"r0", "b0", "k0", "p0"}
AllClients == Clients \cup OldClients
RoleKeys == ROLES \cup {INVALID_ROLE}

NoBinding == [r \in RoleKeys |-> None]
OldBinding ==
    [r \in RoleKeys |->
        CASE r = TEAM_RED -> "r0" [] r = TEAM_BLUE -> "b0"
          [] r = COMMENTATOR -> "k0" [] r = REPORTER -> "p0" [] OTHER -> None]

EmptyComment == [stamp |-> -1, text |-> <<>>]
NoComments == [k \in 1 .. NUM_COMMENTS |-> EmptyComment]

\* open play at the top of the third pass: the kickoff was taken, the ball left
\* the centre circle, the robots were released
KickoffTaken == EnvMove(<<6, 0>>, DEADLOCK_THRESHOLD, "none", {<<TEAM_RED, 4>>})

OpenPlay ==
    LET s0 == start_match(PassStart(MatchInit, 0, OldBinding, {}))
        p0 == regular_pass(PassStart(s0, 0, OldBinding, {}))
        p1 == regular_pass(PassStart(Advance(p0, KickoffTaken), 0, OldBinding, {}))
    IN  Advance(p1, KickoffTaken)

InitProtocol ==
    /\ closed = {}
    /\ unprocessedData = [c \in AllClients |-> <<>>]
    /\ wire \in {w \in [AllClients -> Streams1 \cup {<<>>}] :
                   \A c \in AllClients :
                       IF c \in Clients THEN w[c] \in StreamsOf(c) ELSE w[c] = <<>>}
    /\ stream0 = wire
    /\ sent = <<>>
    /\ comments_ = NoComments
    /\ report = <<>>
    /\ report_file = None
    /\ handled = <<>>
    /\ probe = [kind |-> "none"]

\* no client has anything left to send
QuietProtocol ==
    /\ closed = {}
    /\ unprocessedData = [c \in AllClients |-> <<>>]
    /\ wire = [c \in AllClients |-> <<>>]
    /\ stream0 = wire
    /\ sent = <<>>
    /\ comments_ = NoComments
    /\ report = <<>>
    /\ report_file = None
    /\ handled = <<>>
    /\ probe = [kind |-> "none"]

InitMatchVars(m) ==
    /\ time = m.time
    /\ score = m.score
    /\ half_passed = m.half_passed
    /\ reset_reason = m.reset_reason
    /\ game_state = m.game_state
    /\ ball_ownership = m.ball_ownership
    /\ robot = m.robot
    /\ recent_touch = m.recent_touch
    /\ deadlock_time = m.deadlock_time
    /\ phase_time = m.phase_time
    /\ ball_position = m.ball_position
    /\ ballW = m.ballW
    /\ ballV = m.ballV
    /\ robW = m.robW
    /\ touchQ = m.touchQ
    /\ customData = m.customData
    /\ published = m.published
    /\ config = m.config

InitRpc ==
    /\ InitProtocol
    /\ \/ /\ pc = "wait"
          /\ InitMatchVars(MatchInit)
          /\ connections = {}
          /\ role_client = NoBinding
          /\ ready = <<FALSE, FALSE, FALSE, FALSE>>
       \/ /\ pc = "run"
          /\ InitMatchVars(OpenPlay)
          /\ connections = OldClients
          /\ role_client = OldBinding
          /\ ready = <<TRUE, TRUE, TRUE, TRUE>>

Alive == pc \in {"wait", "run"}

\* spin: the listening socket is readable; accept the connection
AcceptSession(c) ==
    /\ c \notin connections /\ c \notin closed
    /\ connections' = connections \cup {c}
    /\ unprocessedData' = [unprocessedData EXCEPT ![c] = <<>>]
    /\ UNCHANGED <<closed, wire, stream0, sent, role_client, ready, customData,
                   comments_, report,
                   report_file, handled, pc, probe>>
    /\ UNCHANGED matchVars

\* spin: client c is readable and recv yields the next n bytes it sent; the
\* callback gets the pending text followed by those bytes.  An exception raised
\* inside the callback is caught nowhere: it ends run() and the process.
RecvData(c, n) ==
    /\ c \in connections
    /\ n \in 1 .. Len(wire[c])
    /\ \E g \in {callback(RpcNow, ActiveOf(robot), time, c,
                          unprocessedData[c] \o SubSeq(wire[c], 1, n))} :
           /\ wire' = [wire EXCEPT ![c] = SubSeq(@, n + 1, Len(@))]
           /\ role_client' = g.role_client
           /\ ready' = g.ready
           /\ customData' = g.customData
           /\ comments_' = g.comments_
           /\ report' = g.report
           /\ sent' = g.sent
           /\ handled' = g.handled
           /\ IF g.out = "raise"
              THEN pc' = "crashed" /\ UNCHANGED unprocessedData
              ELSE /\ pc' = pc
                   /\ unprocessedData' = [unprocessedData EXCEPT ![c] = g.unprocessed]
    /\ UNCHANGED <<connections, closed, stream0, probe, report_file>>
    /\ UNCHANGED matchVars

Accept(c) == Alive /\ AcceptSession(c)

Recv(c, n) == Alive /\ RecvData(c, n)

CloseSession_Leak(c) ==
    /\ c \in connections
    /\ closed' = closed \cup {c}
    /\ wire' = [wire EXCEPT ![c] = <<>>]
    /\ UNCHANGED <<connections, unprocessedData, stream0, sent, role_client, ready,
                   customData, comments_, report, report_file, handled, pc, probe>>
    /\ UNCHANGED matchVars

\* spin: recv yields no data (the peer closed) or fails: cleanup(s)
CloseSession(c) ==
    /\ c \in connections
    /\ connections' = connections \ {c}
    /\ closed' = closed \cup {c}
    /\ wire' = [wire EXCEPT ![c] = <<>>]
    /\ UNCHANGED <<unprocessedData, stream0, sent, role_client, ready, customData,
                   comments_, report,
                   report_file, handled, pc, probe>>
    /\ UNCHANGED matchVars

Close(c) == Alive /\ CloseSession(c)

NextRpc ==
    \/ \E c \in Clients : Accept(c)
    \/ \E c \in Clients : \E n \in 1 .. Len(wire[c]) : Recv(c, n)
    \/ \E c \in Clients : Close(c)

SpecRpc == InitRpc /\ [][NextRpc]_vars


-----------------------------------------------------------------------------
(* SpecTick: the loop of run() from the moment every role is ready.  The    *)
(* four roles are bound to sessions that send nothing more.                 *)

Configs == {[deadlock |-> TRUE, repeat |-> FALSE],
            [deadlock |-> FALSE, repeat |-> FALSE]}

\* the sessions when every role is ready: all four roles connected and a
\* report received; or no commentator configured, team blue's socket closed
\* after its ready and no report yet
TickSetups ==
    {[config |-> [deadlock |-> TRUE, repeat |-> FALSE],
      bound |-> OldBinding, gone |-> {}, report |-> <<<<"t">>>>],
     [config |-> [deadlock |-> FALSE, repeat |-> FALSE],
      bound |-> [OldBinding EXCEPT ![COMMENTATOR] = None], gone |-> {"b0"},
      report |-> <<>>]}

InitTick ==
    /\ pc = "wait"
    /\ unprocessedData = [c \in AllClients |-> <<>>]
    /\ wire = [c \in AllClients |-> <<>>]
    /\ stream0 = wire
    /\ sent = <<>>
    /\ comments_ = NoComments
    /\ report_file = None
    /\ handled = <<>>
    /\ probe = [kind |-> "none"]
    /\ ready = <<TRUE, TRUE, TRUE, TRUE>>
    /\ \E s \in TickSetups :
          /\ s.config \in Configs
          /\ connections = OldClients \ s.gone
          /\ closed = s.gone
          /\ role_client = s.bound
          /\ report = s.report
          /\ InitMatchVars([MatchInit EXCEPT !.config = s.config])

SetPass(m) ==
    /\ SetMatch(m)
    /\ customData' = m.customData
    /\ UNCHANGED <<connections, closed, unprocessedData, wire, stream0, sent,
                   role_client, ready, comments_, report,
                   report_file, handled>>

\* run(): not started and all(self.ready)
StartMatch ==
    /\ pc = "wait"
    /\ \A k \in 1 .. 4 : ready[k]
    /\ \E whole \in {start_match(PassStart(MatchNow, 0, role_client, closed))} :
       \E stop \in 0 .. whole.waits :
          \E m \in {IF stop = 0 THEN whole
                     ELSE start_match(PassStart(MatchNow, stop, role_client, closed))} :
             /\ SetPass(m)
             /\ pc' = IF m.alive THEN "run" ELSE "stopped"
             /\ probe' = [kind |-> "start", alive |-> m.alive,
                          waits |-> m.waits, stop |-> m.stop]

\* run(): a pass while the half is running, up to the final step
RegularPass ==
    /\ pc = "run"
    /\ time < game_time
    /\ \E whole \in {regular_pass(PassStart(MatchNow, 0, role_client, closed))} :
       \E stop \in 0 .. whole.waits :
          \E m \in {IF stop = 0 THEN whole
                     ELSE regular_pass(PassStart(MatchNow, stop, role_client, closed))} :
             /\ SetPass(m)
             /\ pc' = IF m.alive THEN "step" ELSE "stopped"
             /\ probe' = [kind |-> "pass", alive |-> m.alive,
                          waits |-> m.waits, stop |-> m.stop, fired |-> m.fired,
                          seen |-> m.seen, ball |-> m.ball_position,
                          from |-> [time |-> time, score |-> score,
                                    ball_ownership |-> ball_ownership,
                                    robot |-> robot, robW |-> robW,
                                    half_passed |-> half_passed,
                                    reset_reason |-> reset_reason,
                                    game_state |-> game_state,
                                    phase_time |-> phase_time,
                                    ballW |-> ballW,
                                    ball_position |-> get_ball_position(MatchNow)]]

\* run(): the pass that ends the first half; its "continue" leads to the top
\* of the loop (next)
HalfTimeTo(next) ==
    /\ pc = "run"
    /\ time >= game_time
    /\ ~half_passed
    /\ \E whole \in {half_time(PassStart(MatchNow, 0, role_client, closed))} :
       \E stop \in 0 .. whole.waits :
          \E m \in {IF stop = 0 THEN whole
                     ELSE half_time(PassStart(MatchNow, stop, role_client, closed))} :
             /\ SetPass(m)
             /\ pc' = IF m.alive THEN next ELSE "stopped"
             /\ probe' = [kind |-> "half", alive |-> m.alive,
                          waits |-> m.waits, stop |-> m.stop]

HalfTime == HalfTimeTo("run")

\* run(): the pass that ends the second half
GameOver ==
    /\ pc = "run"
    /\ time >= game_time
    /\ half_passed
    /\ \E whole \in {game_over(PassStart(MatchNow, 0, role_client, closed))} :
       \E stop \in 0 .. whole.waits :
          \E m \in {IF stop = 0 THEN whole
                     ELSE game_over(PassStart(MatchNow, stop, role_client, closed))} :
             /\ SetPass(m)
             /\ pc' = IF ~m.alive THEN "stopped"
                      ELSE IF config.repeat THEN "run" ELSE "ended"
             /\ probe' = [kind |-> "over", alive |-> m.alive,
                          waits |-> m.waits, stop |-> m.stop]

\* run(): self.step(self.timeStep, runTimer=True) at the end of a regular pass
FinalStepFor(next, moves, who) ==
    /\ pc = "step"
    /\ \/ /\ pc' = "stopped"
          /\ UNCHANGED <<customData, probe>>
          /\ UNCHANGED matchVars
       \/ /\ pc' = next
          /\ \E move \in moves : SetMatch(AdvanceFor(MatchNow, move, who))
          /\ UNCHANGED <<customData, probe>>
    /\ UNCHANGED <<connections, closed, unprocessedData, wire, stream0, sent,
                   role_client, ready, comments_, report,
                   report_file, handled>>

FinalStepTo(next, moves) == FinalStepFor(next, moves, EnvRobot)

FinalStep == FinalStepTo("run", EnvMoves)

\* controller.save_report(), after run() returned: "Save the report if
\* anything has been written"; a report was accepted from the reporter only,
\* so self.role_info[REPORTER] holds its info block
save_report(report_) ==
    IF report_ # <<>> /\ report_[1] # <<>> THEN report_[1] ELSE None

SaveReport ==
    /\ pc \in {"stopped", "ended"}
    /\ pc' = "exited"
    /\ report_file' = save_report(report)
    /\ UNCHANGED <<connections, closed, unprocessedData, wire, stream0, sent,
                   role_client, ready, customData, comments_, report, handled,
                   probe>>
    /\ UNCHANGED matchVars

NextTick ==
    StartMatch \/ RegularPass \/ HalfTime \/ GameOver \/ FinalStep \/ SaveReport

SpecTick == InitTick /\ [][NextTick]_vars

-----------------------------------------------------------------------------
(* Properties of the protocol side (checked under SpecRpc) *)

\* what one Recv step of client c delivered and handed to the callback
RecvStep(c) ==
    c \in connections /\ c \in connections' /\ Len(wire'[c]) < Len(wire[c])
Delivered(c) == SubSeq(wire[c], 1, Len(wire[c]) - Len(wire'[c]))
Message(c) == unprocessedData[c] \o Delivered(c)
Fragments(msg) == IF PyStartsWith(msg, Marker) THEN PySplit(msg, Marker) ELSE <<>>
IsComplete(f) == f # <<>> /\ PyEndsWith(f, RParen)
IsPartial(f) == f # <<>> /\ ~PyEndsWith(f, RParen)
NewEntries == SubSeq(handled', Len(handled) + 1, Len(handled'))
CmdsOf(entries) == [k \in 1 .. Len(entries) |-> entries[k].cmd]

RECURSIVE Reprefixed(_)
Reprefixed(fs) ==
    IF fs = <<>> THEN <<>>
    ELSE (IF IsPartial(Head(fs)) THEN Marker \o Head(fs) ELSE <<>>) \o Reprefixed(Tail(fs))

NoEffect(e) ==
    /\ e.dWheels = {}
    /\ ~e.dComments
    /\ ~e.dReport
    /\ ~e.dReady
    /\ ~e.dBind
    /\ ~e.dSent

\* C1: a command whose key matches no registered role key has no side effect:
\* wheel commands, ready flags, role bindings, comment buffer and report are
\* unchanged and nothing is sent back.
C1_UnknownKeyNoEffect ==
    \A k \in 1 .. Len(handled) :
        handled[k].role = INVALID_ROLE => NoEffect(handled[k])

\* C2: for a command with a registered key, wheel commands change only for
\* set_speeds from a team role, and then only that team's; the comment buffer
\* changes only for commentate from the commentator; the report changes only
\* for report from the reporter.
C2_RoleAuthorization ==
    \A k \in 1 .. Len(handled) :
        LET e == handled[k]
        IN  e.role \in ROLES =>
              /\ e.dWheels # {} =>
                    e.kind = "set_speeds" /\ e.role \in TEAMS /\ e.dWheels = {e.role}
              /\ e.dComments => e.kind = "commentate" /\ e.role = COMMENTATOR
              /\ e.dReport => e.kind = "report" /\ e.role = REPORTER

\* C2 witness: team blue drove its own robots, the commentator commented, and a
\* set_speeds from a non-team role was turned down
C2_Witness ==
    /\ \E k \in 1 .. Len(handled) :
           /\ handled[k].kind = "set_speeds" /\ handled[k].role = TEAM_BLUE
           /\ handled[k].dWheels = {TEAM_BLUE}
    /\ \E k \in 1 .. Len(handled) :
           /\ handled[k].kind = "set_speeds" /\ handled[k].role = TEAM_RED
           /\ handled[k].dWheels = {TEAM_RED}

\* C3: in a read where a command is rejected as unauthorized, every complete
\* command of the chunk is still handled and the incomplete fragments are
\* carried forward in the pending buffer.
C3_UsableAfterRejection ==
    [][\A c \in Clients :
          (/\ RecvStep(c)
           /\ pc' # "crashed"
           /\ \E k \in 1 .. Len(NewEntries) : NewEntries[k].outcome = "return")
          => /\ CmdsOf(NewEntries) = SelectSeq(Fragments(Message(c)), IsComplete)
             /\ unprocessedData'[c] = Reprefixed(Fragments(Message(c)))]_vars

\* C4: once a client's whole text has arrived, however it was cut into reads,
\* the commands acted upon and the pending buffer are those of a single read
\* of the whole text.
C4_CutsDoNotMatter ==
    \A c \in Clients :
        LET whole == callback([RpcNow EXCEPT !.handled = <<>>], ActiveOf(robot),
                              time, c, stream0[c])
        IN  (c \in connections /\ wire[c] = <<>> /\ Alive /\ whole.out # "raise")
            => /\ CmdsOf(handled) = CmdsOf(whole.handled)
               /\ unprocessedData[c] = whole.unprocessed

\* C5: a read that delivers several complete commands and nothing else has
\* each of them handled once, in stream order.
C5_ConcatenatedInOrder ==
    [][\A c \in Clients :
          (/\ RecvStep(c)
           /\ pc' # "crashed"
           /\ unprocessedData[c] = <<>>
           /\ Len(SelectSeq(Fragments(Delivered(c)), IsComplete)) >= 2
           /\ SelectSeq(Fragments(Delivered(c)), IsPartial) = <<>>)
          => CmdsOf(NewEntries) = SelectSeq(Fragments(Delivered(c)), IsComplete)]_vars

\* C6: a fragment that does not end in ')' is not acted upon and is kept: the
\* pending buffer after the read is the marker-prefixed text of the read's
\* incomplete fragments.
C6_PartialCarriedForward ==
    [][\A c \in Clients :
          (RecvStep(c) /\ pc' # "crashed" /\ PyStartsWith(Message(c), Marker))
          => /\ \A k \in 1 .. Len(NewEntries) : IsComplete(NewEntries[k].cmd)
             /\ unprocessedData'[c] = Reprefixed(Fragments(Message(c)))]_vars

\* C7: no inbound text ends the control loop.
C7_NoInboundTextStopsLoop == pc # "crashed"


-----------------------------------------------------------------------------
(* SpecOwn: the two tie-break functions applied to bounded placements.     *)
(* Robots 0..2 of each team stand at their default formation positions;    *)
(* robots 3 and 4 of each team stand at one of their OwnSpots, active or   *)
(* not; the ball lies at one of OwnBalls, in either half of the match. *)

OwnBalls == {<<34, 14>>, <<-34, -14>>, <<34, 2>>, <<-34, 2>>, <<0, 14>>}
OwnSpots(i) ==
    IF i = 4
    THEN {<<37, 18>>, <<31, 10>>, <<38, 2>>, <<34, 6>>,
          <<-37, -18>>, <<-31, -10>>, <<-37, 6>>, <<-31, -2>>}
    ELSE {<<37, 10>>, <<0, 0>>}
Movers == {3, 4}

\* the open-play state base with the ball at b and the movers at spot, active
\* as act says, in the second half (hp) mirrored
OwnPlacement(base, hp, b, spot, act) ==
    LET f == IF hp THEN -1 ELSE 1
    IN  [base EXCEPT
           !.half_passed = hp,
           !.ballW = <<f * b[1], f * b[2]>>,
           !.ball_position = b,
           !.ballV = 0,
           !.robW = [t \in TEAMS |-> [i \in IDS |->
               [x |-> IF i \in Movers THEN f * spot[t][i][1] ELSE f * @[t][i].x,
                y |-> IF i \in Movers THEN f * spot[t][i][2] ELSE f * @[t][i].y,
                th |-> @[t][i].th + (IF hp THEN PI ELSE 0),
                stand |-> TRUE]]],
           !.robot = [t \in TEAMS |-> [i \in IDS |->
               IF i \in Movers
               THEN [@[t][i] EXCEPT !.active = act[t][i]]
               ELSE @[t][i]]]]

InitOwn ==
    /\ QuietProtocol
    /\ pc = "run"
    /\ connections = OldClients
    /\ role_client = OldBinding
    /\ ready = <<TRUE, TRUE, TRUE, TRUE>>
    /\ \E hp \in BOOLEAN, b \in OwnBalls,
          spot \in {sp \in [TEAMS -> [Movers -> OwnSpots(3) \cup OwnSpots(4)]] :
                       \A t \in TEAMS, i \in Movers : sp[t][i] \in OwnSpots(i)},
          act \in [TEAMS -> [Movers -> BOOLEAN]] :
          InitMatchVars(OwnPlacement(OpenPlay, hp, b, spot, act))

\* apply both functions to the placement
ApplyOwnership ==
    /\ probe.kind = "none"
    /\ probe' = [kind |-> "own",
                 corner |-> get_corner_ownership(MatchNow),
                 pa |-> get_pa_ownership(MatchNow)]
    /\ UNCHANGED <<connections, closed, unprocessedData, wire, stream0, sent,
                   role_client, ready, customData, comments_, report,
                   report_file, handled, pc>>
    /\ UNCHANGED matchVars

NextOwn == ApplyOwnership

SpecOwn == InitOwn /\ [][NextOwn]_vars

-----------------------------------------------------------------------------
(* Ownership properties *)

RECURSIVE SumOver(_, _)
SumOver(S, f) ==
    IF S = {} THEN 0
    ELSE LET e == CHOOSE e \in S : TRUE IN f[e] + SumOver(S \ {e}, f)

\* the region around the ball's end of the field: the corner on the ball's
\* side ("corner") or the penalty area ("pa")
InRegionOfConcern(kind, b, p) ==
    /\ IF b[1] > 0 THEN p.x > FIELD_LENGTH \div 2 - PENALTY_AREA_DEPTH
       ELSE p.x < -(FIELD_LENGTH \div 2 - PENALTY_AREA_DEPTH)
    /\ IF kind = "pa" THEN -(PENALTY_AREA_WIDTH \div 2) < p.y /\ p.y < PENALTY_AREA_WIDTH \div 2
       ELSE IF b[2] > 0 THEN p.y > PENALTY_AREA_WIDTH \div 2
       ELSE p.y < -(PENALTY_AREA_WIDTH \div 2)

ActiveInRegion(kind, t) ==
    {i \in IDS : /\ robot[t][i].active
                 /\ InRegionOfConcern(kind, get_ball_position(MatchNow),
                                      get_robot_posture(MatchNow, t, i))}

TotalDistance(kind, t) ==
    LET b == get_ball_position(MatchNow)
        d == [i \in IDS |->
                 LET p == get_robot_posture(MatchNow, t, i)
                 IN  Sqrt100(DistanceSquared(p.x, p.y, b[1], b[2]))]
    IN  SumOver(ActiveInRegion(kind, t), d)

\* average distance of team t is smaller than that of team u (cross-multiplied)
CloserOnAverage(kind, t, u) ==
    /\ ActiveInRegion(kind, t) # {} /\ ActiveInRegion(kind, u) # {}
    /\ TotalDistance(kind, t) * Cardinality(ActiveInRegion(kind, u))
         < TotalDistance(kind, u) * Cardinality(ActiveInRegion(kind, t))

AttackingSide == IF get_ball_position(MatchNow)[1] > 0 THEN TEAM_RED ELSE TEAM_BLUE

ExpectedOwner(kind) ==
    LET n0 == Cardinality(ActiveInRegion(kind, TEAM_RED))
        n1 == Cardinality(ActiveInRegion(kind, TEAM_BLUE))
    IN  IF n0 > n1 THEN TEAM_RED
        ELSE IF n1 > n0 THEN TEAM_BLUE
        ELSE IF CloserOnAverage(kind, TEAM_RED, TEAM_BLUE) THEN TEAM_RED
        ELSE IF CloserOnAverage(kind, TEAM_BLUE, TEAM_RED) THEN TEAM_BLUE
        ELSE AttackingSide

\* C10: both tie-breaks award the team with more active robots in the region
\* of concern; with equal counts the team whose active robots there are closer
\* to the ball on average; with a full tie the side attacking the half the ball
\* is in (red for ball x > 0, blue otherwise).  Inactive robots have no
\* influence, and the corner and penalty-area variants differ only in the region.
C10_OwnershipRule ==
    probe.kind = "own" =>
        /\ probe.corner = ExpectedOwner("corner")
        /\ probe.pa = ExpectedOwner("pa")

\* C10 witness: equal numbers of active robots of both teams stand in the
\* corner at equal distance from the ball, an inactive robot stands there too,
\* and the attacking side was awarded
C10_Witness ==
    /\ probe.kind = "own"
    /\ ActiveInRegion("corner", TEAM_RED) # {}
    /\ Cardinality(ActiveInRegion("corner", TEAM_RED))
         = Cardinality(ActiveInRegion("corner", TEAM_BLUE))
    /\ TotalDistance("corner", TEAM_RED) = TotalDistance("corner", TEAM_BLUE)
    /\ \E t \in TEAMS, i \in IDS :
          /\ ~robot[t][i].active
          /\ InRegionOfConcern("corner", get_ball_position(MatchNow),
                               get_robot_posture(MatchNow, t, i))
    /\ probe.corner = AttackingSide

-----------------------------------------------------------------------------
(* Properties of the rule evaluation (checked under SpecTick).  A state     *)
(* with pc = "step" is the end of a regular pass that no step() cut short:  *)
(* the variables hold what the pass decided, probe what it started from     *)
(* and what its rules read.                                                 *)

PassDone == pc = "step" /\ probe.kind = "pass"

DefaultPassDone == PassDone /\ probe.seen.state = STATE_DEFAULT

RedTouchedMore ==
    Cardinality({i \in IDS : probe.seen.touch[TEAM_RED][i]})
        > Cardinality({i \in IDS : probe.seen.touch[TEAM_BLUE][i]})

BallInBlueGoalMouth ==
    /\ probe.ball[1] = FIELD_LENGTH \div 2 + 1
    /\ Abs(probe.ball[2]) < GOAL_WIDTH \div 2

\* C8 (as the code behaves): in a DEFAULT-phase pass with the ball at
\* x = FIELD_LENGTH/2 + 1 and |y| < GOAL_WIDTH/2 the ball is inside team blue's
\* goal mouth, and whoever touched it last: team red's score grows by one, team
\* blue's does not change, ball ownership becomes team blue, the phase becomes
\* KICKOFF and the reset reason reports a goal of team red.
C8_GoalMouthIsAGoal ==
    (DefaultPassDone /\ BallInBlueGoalMouth) =>
        /\ ball_ownership = TEAM_BLUE
        /\ game_state = STATE_KICKOFF
        /\ reset_reason = SCORE_RED_TEAM
        /\ score[TEAM_RED] = probe.from.score[TEAM_RED] + 1
        /\ score[TEAM_BLUE] = probe.from.score[TEAM_BLUE]

\* C8 witness: such a pass, with more recent touches by team red than by team
\* blue, ended in KICKOFF
C8_Witness ==
    /\ DefaultPassDone /\ BallInBlueGoalMouth /\ RedTouchedMore
    /\ game_state = STATE_KICKOFF
    /\ probe.fired = <<"goal">>

\* C8 as stated: in a DEFAULT-phase pass with the ball at x = FIELD_LENGTH/2 + 1,
\* |y| < GOAL_WIDTH/2 and more recent touches by team red than by team blue,
\* ball ownership becomes team blue, the phase becomes GOALKICK and the reset
\* reason reports a goal kick.
C8_AsStated ==
    (DefaultPassDone /\ BallInBlueGoalMouth /\ RedTouchedMore) =>
        /\ ball_ownership = TEAM_BLUE
        /\ game_state = STATE_GOALKICK
        /\ reset_reason = GOALKICK

\* the deadlock check of the pass found the ball slow for the full duration in
\* the general region
DeadlockInGeneralRegion ==
    /\ DefaultPassDone
    /\ probe.seen.deadlock.entered
    /\ probe.seen.deadlock.speed < DEADLOCK_THRESHOLD
    /\ probe.seen.deadlock.still >= DEADLOCK_DURATION_MS
    /\ Abs(probe.seen.deadlock.ball[1]) <= FIELD_LENGTH \div 2 - PENALTY_AREA_DEPTH

QuadrantAnchor(b) ==
    IF b[1] < 0 /\ b[2] > 0 THEN BALL_RELOCATION_A
    ELSE IF b[1] < 0 /\ b[2] <= 0 THEN BALL_RELOCATION_B
    ELSE IF b[1] >= 0 /\ b[2] > 0 THEN BALL_RELOCATION_C
    ELSE BALL_RELOCATION_D

\* C9: with deadlock enabled, when a DEFAULT-phase pass in which no other rule
\* restarted play finds the ball below the speed threshold for the full
\* deadlock duration and in the general region, the ball is relocated to the
\* anchor of its quadrant, the phase stays DEFAULT, ball ownership is what it
\* was before the pass, every robot's active flag is what it was when the
\* deadlock check began, the reset reason reports deadlock and the deadlock
\* timer restarts at the current match time.
C9_GeneralDeadlock ==
    DeadlockInGeneralRegion =>
        /\ get_ball_position(MatchNow) = QuadrantAnchor(probe.seen.deadlock.ball)
        /\ game_state = STATE_DEFAULT
        /\ ball_ownership = probe.from.ball_ownership
        /\ ball_ownership = probe.seen.deadlock.owner
        /\ ActiveOf(robot) = probe.seen.deadlock.active
        /\ reset_reason = DEADLOCK
        /\ deadlock_time = time

\* C9 witness: a deadlock in team red's upper half was resolved by relocating
\* the ball to anchor A
C9_Witness ==
    /\ DeadlockInGeneralRegion
    /\ config.deadlock
    /\ probe.seen.deadlock.ball[1] < 0 /\ probe.seen.deadlock.ball[2] > 0
    /\ probe.fired = <<"deadlock_general">>
    /\ get_ball_position(MatchNow) = BALL_RELOCATION_A

\* what the fall rule of the pass read for robot i of team t
FallLimitReached(t, i) ==
    /\ probe.from.robot[t][i].active
    /\ probe.from.time - probe.from.robot[t][i].fall_time >= FALL_TIME_MS

LyingAtPass(t, i) == ~probe.from.robW[t][i].stand

\* C11: a regular pass sends a robot out for having fallen exactly when the
\* robot was active, its time since it last stood has reached the fall
\* duration and it is still not standing at this pass - in particular a robot
\* that stands again at this pass is not sent out; the robot sent out is
\* inactive, in its team's foul zone and carries the time of the pass as its
\* sent-out time (as long as no restart re-placed the robots in the same pass).
C11_FallenSentOutOnTime ==
    PassDone =>
        \A t \in TEAMS, i \in IDS :
            /\ <<t, i>> \in probe.seen.fallen
                   <=> (FallLimitReached(t, i) /\ LyingAtPass(t, i))
            /\ (<<t, i>> \in probe.seen.fallen /\ probe.fired = <<>>) =>
                   /\ ~robot[t][i].active
                   /\ robot[t][i].sentout_time = time
                   /\ robW[t][i] = send_to_foulzone(MatchNow, t, i).robW[t][i]


-----------------------------------------------------------------------------
(* Frame mirroring *)

\* what generate_frame does differently for team blue, as a map on the
\* team-red frame of the same state
RedToBlue(f) ==
    LET Mirror(row) == [i \in IDS |->
            [row[i] EXCEPT !.x = -@, !.y = -@, !.th = @ + PI]]
    IN  [f EXCEPT
            !.score = <<f.score[2], f.score[1]>>,
            !.reset_reason = IF @ = SCORE_RED_TEAM THEN SCORE_OPPONENT
                             ELSE IF @ = SCORE_BLUE_TEAM THEN SCORE_MYTEAM
                             ELSE @,
            !.ball_ownership = ~@,
            !.coordinates = <<Mirror(f.coordinates[2]), Mirror(f.coordinates[1]),
                              <<-f.coordinates[3][1], -f.coordinates[3][2]>>>>]

FramesSent == {published[k].frame : k \in 1..Len(published)}

\* the transform is the one of generate_frame: the team-blue frame of a
\* publish_current_frame call is its mirrored team-red frame
MirrorIsBlueFrame ==
    \A k \in 2..Len(published) :
        (published[k - 1].role = TEAM_RED /\ published[k].role = TEAM_BLUE) =>
            published[k].frame = RedToBlue(published[k - 1].frame)

\* C12: mirroring any frame twice (negate every x and y, turn every heading
\* by PI, swap the score pair and the two robot lists, flip the ball-ownership
\* flag) gives the frame back.
C12_MirrorTwiceIsIdentity ==
    \A f \in FramesSent : RedToBlue(RedToBlue(f)) = f


-----------------------------------------------------------------------------
(* The score *)

\* C13: no step of the run loop lowers a team's score; the score changes only
\* in a regular pass that begins in the DEFAULT phase with the ball inside a
\* goal mouth, and then exactly one team's score grows by exactly 1.
C13_ScoreOnlyGrowsByGoals ==
    [][/\ \A t \in TEAMS : score'[t] >= score[t]
       /\ score' # score =>
            /\ pc = "run" /\ time < game_time
            /\ game_state = STATE_DEFAULT
            /\ Abs(ballW[1]) > FIELD_LENGTH \div 2
            /\ Abs(ballW[2]) < GOAL_WIDTH \div 2
            /\ \E t \in TEAMS :
                  /\ score'[t] = score[t] + 1
                  /\ score'[Other(t)] = score[Other(t)]]_vars

\* a pass has just counted a goal
C13_Witness ==
    /\ PassDone
    /\ "goal" \in {probe.fired[k] : k \in 1..Len(probe.fired)}
    /\ score # probe.from.score


-----------------------------------------------------------------------------
(* Frames of a regular pass *)

LiveSession(role) == role_client[role] # None /\ role_client[role] \notin closed

FramesTo(role) == {k \in 1..Len(published) : published[k].role = role}

\* C14: a regular pass sends exactly one frame to every role with a live
\* session and none to the others; team blue gets the team-blue frame of the
\* state the pass began in, every other role the team-red frame of that state.
C14_OneFramePerLiveRole ==
    probe.kind = "pass" =>
        \A role \in ROLES :
            IF LiveSession(role)
            THEN /\ Cardinality(FramesTo(role)) = 1
                 /\ \A k \in FramesTo(role) :
                       /\ published[k].to = role_client[role]
                       /\ published[k].frame =
                              generate_frame(probe.from,
                                             IF role = TEAM_BLUE THEN TEAM_BLUE
                                             ELSE TEAM_RED, None)
            ELSE FramesTo(role) = {}

\* a regular pass with a role without a session, a closed session and live
\* ones, in which a rule restarted play
C14_Witness ==
    /\ probe.kind = "pass"
    /\ probe.fired # <<>>
    /\ \E r1, r2, r3 \in ROLES :
          /\ role_client[r1] = None
          /\ role_client[r2] \in closed
          /\ LiveSession(r3) /\ FramesTo(r3) # {}


-----------------------------------------------------------------------------
(* The deadlock switch *)

DeadlockRules == {"deadlock_general", "deadlock_pa", "deadlock_corner"}

\* C15: with the deadlock flag configured false no pass resolves a deadlock
\* (no relocation of the ball, no GOALKICK, PENALTYKICK or CORNERKICK after a
\* still ball), however long the ball stays below the speed threshold.
C15_DeadlockGatedByFlag ==
    (probe.kind = "pass" /\ ~config.deadlock) =>
        \A k \in 1..Len(probe.fired) : probe.fired[k] \notin DeadlockRules


-----------------------------------------------------------------------------
(* SpecStart: run() from its set-up to the start of the match.  The config  *)
(* file names the optional roles; the players that were launched send       *)
(* aiwc.ready once.                                                         *)

\* config['commentator'] / config['reporter']: the section is missing, holds
\* no executable, or holds one
RoleSections == {"absent", "noexe", "exe"}

StartConfigs ==
    {[deadlock |-> TRUE, repeat |-> FALSE, commentator |-> a, reporter |-> b] :
        a, b \in RoleSections}

SectionOf(c, role) == IF role = COMMENTATOR THEN c.commentator ELSE c.reporter

\* self.ready after the set-up of run(): [False] * 4, then True for an optional
\* role whose section holds no executable
InitialReady(c) ==
    <<FALSE, FALSE, c.commentator = "noexe", c.reporter = "noexe">>

\* player_infos: a player is launched for both teams and for an optional role
\* with an executable
HasPlayer(c, role) == role \in TEAMS \/ SectionOf(c, role) = "exe"

InitStart ==
    /\ QuietProtocol
    /\ pc = "wait"
    /\ connections = OldClients
    /\ role_client = NoBinding
    /\ \E c \in StartConfigs :
          /\ ready = InitialReady(c)
          /\ InitMatchVars([MatchInit EXCEPT !.config = c])

\* spin: the player of a role sends aiwc.ready(key) and the callback handles it
ClientReady(role) ==
    /\ pc = "wait"
    /\ HasPlayer(config, role)
    /\ role_client[role] = None
    /\ \E g \in {callback(RpcNow, ActiveOf(robot), time, OldBinding[role],
                          Call(N_ready, RoleKey(role), <<>>))} :
          /\ role_client' = g.role_client
          /\ ready' = g.ready
          /\ handled' = g.handled
    /\ UNCHANGED <<connections, closed, unprocessedData, wire, stream0, sent,
                   customData, comments_, report, report_file, pc, probe>>
    /\ UNCHANGED matchVars

\* run(): not started and not all(self.ready): self.step(self.timeStep)
WaitStep ==
    /\ pc = "wait"
    /\ \E k \in 1 .. 4 : ~ready[k]
    /\ \E carries_on \in BOOLEAN : pc' = IF carries_on THEN "wait" ELSE "stopped"
    /\ UNCHANGED <<probe, customData>>
    /\ UNCHANGED rpcVars
    /\ UNCHANGED matchVars

NextStart ==
    (\E role \in ROLES : ClientReady(role)) \/ WaitStep \/ StartMatch \/ SaveReport

SpecStart == InitStart /\ [][NextStart]_vars

\* C16: an optional role (commentator, reporter) without a player, its section
\* missing from the configuration or present without an executable, counts as
\* ready from the beginning: the match waits for the players only.
C16_AbsentRoleIsReady ==
    pc = "wait" =>
        \A role \in {COMMENTATOR, REPORTER} :
            ~HasPlayer(config, role) => ready[role + 1]

\* with a section missing the match never starts, whoever is ready
NeverStartsWithoutSection ==
    (\E role \in {COMMENTATOR, REPORTER} : SectionOf(config, role) = "absent")
        => pc \in {"wait", "stopped"} /\ probe.kind = "none"


-----------------------------------------------------------------------------
(* The backend ends the run *)

\* the last pass was cut short by a step() that returned -1
PassCut == probe.kind # "none" /\ ~probe.alive

-----------------------------------------------------------------------------
(* SpecSpin: the I/O phase of a pass.  run() calls TcpServer.spin at the top *)
(* of every pass; spin polls the sockets with a zero timeout and goes round *)
(* its loop as long as the poll reports a readable socket.  One client      *)
(* sends whenever its socket is drained.                                    *)

SpinSender == "r0"
Garbage == <<"x">>
SpinMessages == {Garbage, Call(N_ready, RoleKey(TEAM_RED), <<>>)}

\* how many complete commands the sender issues at most
MaxHandled == 3

InitSpin ==
    /\ QuietProtocol
    /\ pc = "spin"
    /\ connections = OldClients
    /\ role_client = OldBinding
    /\ ready = <<TRUE, TRUE, TRUE, TRUE>>
    /\ InitMatchVars(OpenPlay)

\* the client writes to its socket
ClientSend(c, msg) ==
    /\ pc \in {"spin", "run", "step"}
    /\ c \in connections
    /\ wire[c] = <<>>
    /\ msg = Garbage \/ Len(handled) < MaxHandled
    /\ wire' = [wire EXCEPT ![c] = msg]
    /\ UNCHANGED <<connections, closed, unprocessedData, stream0, sent,
                   role_client, ready, customData, comments_, report,
                   report_file, handled, pc, probe>>
    /\ UNCHANGED matchVars

\* spin: select reports c readable; recv until EWOULDBLOCK, then the callback
SpinRecv(c) ==
    /\ pc = "spin"
    /\ wire[c] # <<>>
    /\ RecvData(c, Len(wire[c]))

\* what select reports: some socket is readable
Readable == \E c \in connections : wire[c] # <<>>

SpinReturn_Early ==
    /\ pc = "spin"
    /\ pc' = "run"
    /\ UNCHANGED <<probe, customData>>
    /\ UNCHANGED rpcVars
    /\ UNCHANGED matchVars

\* spin: "if not readable and not writable and not exceptional: return"
SpinReturn ==
    /\ pc = "spin"
    /\ ~Readable
    /\ pc' = "run"
    /\ UNCHANGED <<probe, customData>>
    /\ UNCHANGED rpcVars
    /\ UNCHANGED matchVars

\* the final step of a pass, with a ball at rest; the next pass begins in spin
StepToSpin == FinalStepTo("spin", {EnvMove(<<>>, 0, "none", {})})

NextSpin ==
    \/ \E msg \in SpinMessages : ClientSend(SpinSender, msg)
    \/ \E c \in OldClients : SpinRecv(c)
    \/ SpinReturn
    \/ RegularPass
    \/ StepToSpin

SpecSpin == InitSpin /\ [][NextSpin]_vars

\* the loop of spin keeps running (weak fairness of its two steps, the one of
\* SpinRecv with its enabling condition written out); nothing makes a client
\* stop sending
SpecSpinFair ==
    /\ SpecSpin
    /\ \/ []<>~(pc = "spin" /\ Readable)
       \/ []<><<\E c \in OldClients : SpinRecv(c)>>_vars
    /\ WF_vars(SpinReturn)

\* C18: the I/O phase of every pass ends, whatever one client sends and
\* however fast it keeps sending, so that the rules and the frames of the
\* pass follow.
C18_SpinReturns == (pc = "spin") ~> (pc # "spin")


-----------------------------------------------------------------------------
(* SpecReturn: open play in a longer half, long enough for a time out to    *)
(* end.  The backend keeps the ball moving, takes robot EnvRobot off the    *)
(* field, rolls the ball onto that robot's place in the default formation   *)
(* or into team blue's goal.                                                *)

\* the length of the longer half, in control periods
LongGameTime == 8

ReturnConfig == [deadlock |-> TRUE, repeat |-> FALSE, game_time |-> LongGameTime]

BlockSpot ==
    <<ROBOT_FORMATION("DEFAULT")[EnvRobot[2] + 1][1] * Sign(EnvRobot[1]),
      ROBOT_FORMATION("DEFAULT")[EnvRobot[2] + 1][2] * Sign(EnvRobot[1])>>

ReturnMoves ==
    {EnvMove(<<6, 0>>, DEADLOCK_THRESHOLD, "none", {<<TEAM_RED, 4>>}),
     EnvMove(<<>>, DEADLOCK_THRESHOLD, "leave", {}),
     EnvMove(BlockSpot, DEADLOCK_THRESHOLD, "none", {}),
     EnvMove(<<41, 0>>, DEADLOCK_THRESHOLD, "none", {})}

InitReturn ==
    /\ QuietProtocol
    /\ pc = "run"
    /\ connections = OldClients
    /\ role_client = OldBinding
    /\ ready = <<TRUE, TRUE, TRUE, TRUE>>
    /\ InitMatchVars([OpenPlay EXCEPT !.config = ReturnConfig])

ReturnStep == FinalStepTo("run", ReturnMoves)

NextReturn == RegularPass \/ ReturnStep

SpecReturn == InitReturn /\ [][NextReturn]_vars

-----------------------------------------------------------------------------
(* The return of a robot that was sent out *)

\* robot i of team t was out when the pass began, its time out was over and
\* nothing stood near its place in the default formation
TimeOutOver(t, i) ==
    /\ probe.from.robot[t][i].sentout_time # 0
    /\ probe.from.time - probe.from.robot[t][i].sentout_time >= SENTOUT_DURATION_MS

PlaceFree(t, i) ==
    ~any_object_nearby(probe.from,
                       ROBOT_FORMATION("DEFAULT")[i + 1][1] * Sign(t),
                       ROBOT_FORMATION("DEFAULT")[i + 1][2] * Sign(t),
                       ROBOT_SIZE)

Returned(t, i) ==
    /\ robot[t][i].active
    /\ robot[t][i].sentout_time = 0
    /\ robW[t][i].x = HalfSign(MatchNow) * ROBOT_FORMATION("DEFAULT")[i + 1][1] * Sign(t)
    /\ robW[t][i].y = HalfSign(MatchNow) * ROBOT_FORMATION("DEFAULT")[i + 1][2] * Sign(t)
    /\ robW[t][i].stand

\* a pass that no restart, no send-out and no step() interfered with
PlainPass == PassDone /\ probe.fired = <<>> /\ probe.seen.fallen = {}

-----------------------------------------------------------------------------
(* SpecKeeper: open play in the longer half while team red's goalkeeper     *)
(* falls over and stays down; the ball keeps moving in midfield.            *)

Keeper == <<TEAM_RED, 0>>

KeeperMoves ==
    {EnvMove(<<6, 0>>, DEADLOCK_THRESHOLD, "none", {<<TEAM_RED, 4>>}),
     EnvMove(<<-6, 5>>, DEADLOCK_THRESHOLD, "none", {<<TEAM_BLUE, 4>>}),
     EnvMove(<<>>, DEADLOCK_THRESHOLD, "fall", {}),
     EnvMove(<<>>, DEADLOCK_THRESHOLD, "rise", {})}

KeeperStep == FinalStepFor("run", KeeperMoves, Keeper)

NextKeeper == RegularPass \/ KeeperStep

SpecKeeper == InitReturn /\ [][NextKeeper]_vars

-----------------------------------------------------------------------------
(* Robots that are not active *)

\* robot i of team t was not active when the pass began, and the pass put it
\* somewhere else
MovedWhileInactive(t, i) ==
    /\ ~probe.from.robot[t][i].active
    /\ robW[t][i] # probe.from.robW[t][i]

\* C20: in a pass without a restart, a robot that is not active is moved by
\* nothing but the end of its time out: not by the out-of-field check, not by
\* the check of the opponent's penalty area, not by the goalkeeper check.
C20_InactiveRobotStaysPut ==
    (PassDone /\ probe.fired = <<>>) =>
        \A t \in TEAMS, i \in IDS :
            MovedWhileInactive(t, i) => TimeOutOver(t, i) /\ Returned(t, i)

\* the goalkeeper, sent out for lying on the ground, is put back on its place
\* in the default formation before its time out is over, and is still out
KeeperBackWhileOut ==
    /\ PassDone /\ probe.fired = <<>>
    /\ MovedWhileInactive(Keeper[1], Keeper[2])
    /\ ~TimeOutOver(Keeper[1], Keeper[2])
    /\ ~robot[Keeper[1]][Keeper[2]].active
    /\ robot[Keeper[1]][Keeper[2]].sentout_time # 0
    /\ robW[Keeper[1]][Keeper[2]].x = ROBOT_FORMATION("DEFAULT")[1][1]


-----------------------------------------------------------------------------
(* The sent-out time as the mark of a robot that is out *)

\* robot i of team t stands at its place in the foul zone
InFoulZone(t, i) ==
    /\ robW[t][i].x = HalfSign(MatchNow) * ROBOT_FOUL_POSTURE[i + 1][1] * Sign(t)
    /\ robW[t][i].y = HalfSign(MatchNow) * ROBOT_FOUL_POSTURE[i + 1][2] * Sign(t)

\* C21: between two passes a robot's sent-out time is 0 exactly when the robot
\* is on the field: nonzero while the robot stands in the foul zone it was
\* sent to, 0 once it has been returned or reset.
C21_SentOutTimeMarksFoulZone ==
    pc \in {"run", "step"} =>
        \A t \in TEAMS, i \in IDS :
            (robot[t][i].sentout_time # 0) <=> InFoulZone(t, i)

\* the goalkeeper is back on its place on the field with its sent-out time
\* still set
KeeperOnFieldMarkedOut ==
    /\ pc = "step"
    /\ robot[Keeper[1]][Keeper[2]].sentout_time # 0
    /\ ~InFoulZone(Keeper[1], Keeper[2])
    /\ robot_in_field(MatchNow, Keeper[1], Keeper[2])


-----------------------------------------------------------------------------
(* Half time *)

LiveRoles == {role \in ROLES : LiveSession(role)}

\* the formation of team t when team blue kicks off
SecondHalfFormation(t) == IF t = TEAM_RED THEN "DEFAULT" ELSE "KICKOFF"

\* where robot i of team t stands at the kick-off of the second half: its
\* formation place with both coordinates negated and the heading turned by PI
MirroredPlace(t, i) ==
    [x |-> -(ROBOT_FORMATION(SecondHalfFormation(t))[i + 1][1] * Sign(t)),
     y |-> -(ROBOT_FORMATION(SecondHalfFormation(t))[i + 1][2] * Sign(t)),
     th |-> ROBOT_FORMATION(SecondHalfFormation(t))[i + 1][3]
              + (IF t = TEAM_RED THEN 0 ELSE PI) - PI \div 2 + PI,
     stand |-> TRUE]

\* the frames of the pass: first one frame per live role with reason first
\* and half_passed FALSE, then one per live role with reason second
TwoRounds(frames, first, second) ==
    LET n == Cardinality(LiveRoles)
    IN  /\ Len(frames) = 2 * n
        /\ \A k \in 1 .. n :
              /\ frames[k].frame.reset_reason = first
              /\ frames[k].frame.half_passed = FALSE
              /\ frames[n + k].frame.reset_reason = second
              /\ frames[n + k].role = frames[k].role
        /\ {frames[k].role : k \in 1 .. n} = LiveRoles

\* C22: the pass that finds the clock at the game duration in the first half
\* publishes a HALFTIME frame, then sets half_passed, gives the ball to team
\* blue, puts the clock to 0 and the phase to KICKOFF with every robot at its
\* mirrored formation place and locked except team blue's robot 4, keeps both
\* scores, and publishes a GAME_START frame of that state.
C22_HalfTime ==
    [][(pc = "run" /\ time >= game_time /\ ~half_passed /\ pc' = "run") =>
          /\ half_passed'
          /\ ball_ownership' = TEAM_BLUE
          /\ time' = 0
          /\ game_state' = STATE_KICKOFF
          /\ score' = score
          /\ \A t \in TEAMS, i \in IDS :
                /\ robot'[t][i].active <=> (t = TEAM_BLUE /\ i = 4)
                /\ robW'[t][i] = MirroredPlace(t, i)
          /\ TwoRounds(published', HALFTIME, GAME_START)
          /\ \A k \in 1 .. Len(published') :
                published'[k].frame.reset_reason = GAME_START =>
                    /\ published'[k].frame.half_passed
                    /\ published'[k].frame.game_state = STATE_KICKOFF
                    /\ published'[k].frame.score =
                          <<score[FrameTeam(published'[k].role)],
                            score[Other(FrameTeam(published'[k].role))]>>]_vars

\* the second half is about to begin and a goal of the first half is on the
\* score board
C22_Witness ==
    /\ pc = "run"
    /\ probe.kind = "half"
    /\ probe.alive
    /\ half_passed
    /\ time = 0
    /\ score[TEAM_RED] + score[TEAM_BLUE] > 0
    /\ Len(published) = 2 * Cardinality(LiveRoles)


-----------------------------------------------------------------------------
(* SpecMatch: a whole match with repeat mode off, from open play in the     *)
(* first half to the return of run(), every pass beginning with its I/O     *)
(* phase.  One client sends whenever its socket is drained; the ball rests  *)
(* or is played in midfield.                                                *)

MatchMoves ==
    {EnvMove(<<>>, 0, "none", {}),
     EnvMove(<<6, 0>>, DEADLOCK_THRESHOLD, "none", {<<TEAM_RED, 4>>})}

MatchStep == FinalStepTo("spin", MatchMoves)

\* what the client sends: bytes that are no command, a ready, wheel speeds
SpeedsCall == Call(N_set_speeds, RoleKey(TEAM_RED), TenOnes)
MatchMessages == SpinMessages \cup {SpeedsCall}

NextMatch ==
    \/ \E msg \in MatchMessages : ClientSend(SpinSender, msg)
    \/ \E c \in OldClients : SpinRecv(c)
    \/ SpinReturn
    \/ RegularPass
    \/ HalfTimeTo("spin")
    \/ GameOver
    \/ MatchStep
    \/ SaveReport

SpecMatch == InitSpin /\ [][NextMatch]_vars

\* the loop of run() keeps running: weak fairness of every step of the
\* supervisor, the enabling conditions of the steps that read a socket or
\* make a pass written out; nothing makes the client stop sending
SpecMatchFair ==
    /\ SpecMatch
    /\ \/ []<>~(pc = "spin" /\ Readable)
       \/ []<><<\E c \in OldClients : SpinRecv(c)>>_vars
    /\ WF_vars(SpinReturn)
    /\ \/ []<>~(pc = "run")
       \/ []<><<RegularPass \/ HalfTimeTo("spin") \/ GameOver>>_vars
    /\ \/ []<>~(pc = "step")
       \/ []<><<MatchStep>>_vars
    /\ WF_vars(SaveReport)

\* run() has returned, after GAME_END or after a step() that failed
MatchEnded == pc \in {"ended", "stopped", "exited"}

\* C23: with repeat mode off every match ends, unless a step() fails first:
\* the clock grows by one control period in every regular tick, the first
\* half ends once, later the second half ends with GAME_END, and nothing is
\* published after that.
C23_MatchTerminates == <>MatchEnded

\* a match in which every I/O phase ends does end
EndsIfSpinReturns == ([]<>(pc # "spin")) => <>MatchEnded

\* the clock grows by exactly one control period in every regular tick, and
\* in no other step but the half-time pass, which puts it back to 0
ClockGrowsByPeriod ==
    [][/\ (pc = "step" /\ pc' = "spin") => time' = time + PERIOD_MS
       /\ (pc = "run" /\ pc' = "step") => time' = time
       /\ time' # time => \/ pc = "step" /\ pc' = "spin"
                          \/ pc = "run" /\ ~half_passed /\ half_passed' /\ time' = 0]_vars

\* the first half ends once; GAME_END is published by the pass that ends the
\* second half, and no frame is published after it
OneHalfTimeOneEnd ==
    [][/\ half_passed => half_passed'
       /\ (~half_passed /\ half_passed') =>
              \E k \in 1 .. Len(published') : published'[k].frame.reset_reason = HALFTIME
       /\ (pc = "run" /\ pc' = "ended") =>
              /\ half_passed /\ time >= game_time
              /\ published' # <<>>
              /\ \A k \in 1 .. Len(published') : published'[k].frame.reset_reason = GAME_END
       /\ pc \in {"ended", "exited"} =>
              /\ pc' = "exited"
              /\ UNCHANGED <<matchVars, sent>>]_vars

\* the match was played to its end
PlayedToTheEnd == pc = "ended" /\ half_passed /\ time >= game_time


-----------------------------------------------------------------------------
(* SpecRepeat: matches in repeat mode, from open play in the first half;    *)
(* the ball rests or is played in midfield, so that no goal is scored.      *)

RepeatConfig == [deadlock |-> TRUE, repeat |-> TRUE]

InitRepeat ==
    /\ QuietProtocol
    /\ pc = "run"
    /\ connections = OldClients
    /\ role_client = OldBinding
    /\ ready = <<TRUE, TRUE, TRUE, TRUE>>
    /\ InitMatchVars([OpenPlay EXCEPT !.config = RepeatConfig])

RepeatStep == FinalStepTo("run", MatchMoves)

NextRepeat == RegularPass \/ HalfTime \/ GameOver \/ RepeatStep \/ SaveReport

SpecRepeat == InitRepeat /\ [][NextRepeat]_vars

\* C24: in repeat mode the pass that ends the second half publishes
\* EPISODE_END and leaves a new match to be played: the first half
\* (half_passed false), in KICKOFF, with the clock at 0, so that a whole game
\* duration passes before the next HALFTIME frame.
C24_RepeatRestartsMatch ==
    [][(pc = "run" /\ time >= game_time /\ half_passed /\ config.repeat
            /\ pc' = "run") =>
          /\ \A k \in 1 .. Len(published') :
                published'[k].frame.reset_reason = EPISODE_END
          /\ ~half_passed'
          /\ time' = 0
          /\ game_state' = STATE_KICKOFF]_vars

\* after EPISODE_END the first half is over before it began: the clock still
\* stands at the game duration, and the very next pass is the half-time pass
HalfTimeDueAtRestart ==
    /\ pc = "run"
    /\ probe.kind = "over"
    /\ probe.alive
    /\ ~half_passed
    /\ time >= game_time
    /\ \A k \in 1 .. Len(published) : published[k].frame.reset_reason = EPISODE_END


-----------------------------------------------------------------------------
(* Commands and rules within a pass *)

-----------------------------------------------------------------------------
(* The frame of a pass and the rules of the pass *)

\* frame f, made for team, shows the phase, the ball ownership, the active
\* flags and the reset reason of the supervisor's present state
ShowsPresentState(f, team) ==
    /\ f.game_state = game_state
    /\ f.ball_ownership = (ball_ownership = team)
    /\ f.reset_reason = generate_frame(MatchNow, team, None).reset_reason
    /\ \A i \in IDS :
          /\ f.coordinates[1][i].active = robot[team][i].active
          /\ f.coordinates[2][i].active = robot[Other(team)][i].active

\* C26: the frame of a regular pass is built and sent after the rules of the
\* pass have run: its phase, ball ownership, active flags and reset reason are
\* the ones the pass decided.
C26_FrameAfterRules ==
    (PassDone /\ probe.alive) =>
        \A k \in 1 .. Len(published) :
            ShowsPresentState(published[k].frame, FrameTeam(published[k].role))

\* a pass gave a goal and restarted play in KICKOFF, and the frame it sent
\* shows open play and no reset reason
FrameBeforeGoal ==
    /\ PassDone
    /\ probe.alive
    /\ game_state = STATE_KICKOFF
    /\ reset_reason \in {SCORE_RED_TEAM, SCORE_BLUE_TEAM}
    /\ published # <<>>
    /\ \A k \in 1 .. Len(published) :
          /\ published[k].frame.game_state = STATE_DEFAULT
          /\ published[k].frame.reset_reason = NONE


-----------------------------------------------------------------------------
(* SpecSession: open play in the longer half, every pass beginning with its *)
(* I/O phase.  The session of team red may end at any moment; a new client  *)
(* may connect and send commands with team red's key.                       *)

Leaver == "r0"
Newcomer == "c1"

\* what a socket yields last: end of stream, or a failure of the read
Eof == <<"eof">>
Broken == <<"err">>
AtEof(c) == wire[c] # <<>> /\ wire[c][Len(wire[c])] \in {"eof", "err"}
ReadFails(c) == wire[c] # <<>> /\ wire[c][Len(wire[c])] = "err"
DataLen(c) == IF AtEof(c) THEN Len(wire[c]) - 1 ELSE Len(wire[c])

NewcomerMessages ==
    {Call(N_ready, RoleKey(TEAM_RED), <<>>), Call(N_get_info, RoleKey(TEAM_RED), <<>>)}

\* the peer closes its end: what it has sent is still to be read, then recv
\* yields nothing; or the connection breaks and the read raises
PeerClose(c, how) ==
    /\ pc \in {"spin", "run", "step"}
    /\ c \in connections
    /\ ~AtEof(c)
    /\ wire' = [wire EXCEPT ![c] = @ \o how]
    /\ UNCHANGED <<connections, closed, unprocessedData, stream0, sent,
                   role_client, ready, customData, comments_, report,
                   report_file, handled, pc, probe>>
    /\ UNCHANGED matchVars

\* spin: the bytes before the end of stream go to the callback
SessionRecv(c) ==
    /\ pc = "spin"
    /\ DataLen(c) > 0
    /\ ~ReadFails(c)
    /\ RecvData(c, DataLen(c))

\* spin: "if data and success: ... else: cleanup(s)"
SpinClose(c) ==
    /\ pc = "spin"
    /\ wire[c] = Eof \/ ReadFails(c)
    /\ CloseSession(c)

SpinAccept(c) == pc = "spin" /\ AcceptSession(c)

SessionMoves == {EnvMove(<<6, 0>>, DEADLOCK_THRESHOLD, "none", {<<TEAM_RED, 4>>})}

SessionStep == FinalStepTo("spin", SessionMoves)

InitSession ==
    /\ QuietProtocol
    /\ pc = "spin"
    /\ connections = OldClients
    /\ role_client = OldBinding
    /\ ready = <<TRUE, TRUE, TRUE, TRUE>>
    /\ InitMatchVars([OpenPlay EXCEPT !.config = ReturnConfig])

NextSession ==
    \/ \E how \in {Eof, Broken} : PeerClose(Leaver, how)
    \/ \E c \in {Leaver, Newcomer}, msg \in NewcomerMessages : ClientSend(c, msg)
    \/ SpinAccept(Newcomer)
    \/ \E c \in AllClients : SessionRecv(c)
    \/ \E c \in AllClients : SpinClose(c)
    \/ SpinReturn
    \/ RegularPass
    \/ SessionStep

SpecSession == InitSession /\ [][NextSession]_vars

\* the role whose session ended gets no frame
RoleCutOff(role) ==
    role_client[role] \in closed /\ FramesTo(role) = {}

\* C27: a session whose read yields end of stream or fails is closed and
\* removed from the polled set before the I/O phase ends, is never polled
\* again and is sent nothing more; its role gets no frame until a new session
\* sends a command with the role's key and is bound to it, while every role
\* with a live session gets one frame in every pass.
C27_ClosedSessionIsGone ==
    /\ [](closed \cap connections = {})
    /\ [](PassDone =>
            /\ \A k \in 1 .. Len(published) : published[k].to \notin closed
            /\ \A role \in ROLES :
                  IF LiveSession(role)
                  THEN /\ Cardinality(FramesTo(role)) = 1
                       /\ \A k \in FramesTo(role) : published[k].to = role_client[role]
                  ELSE FramesTo(role) = {})
    /\ [][/\ (pc = "spin" /\ pc' = "run") => \A c \in AllClients : ~AtEof(c)
          /\ closed \subseteq closed'
          /\ \A c \in closed : \A k \in 1 .. Len(sent') :
                k > Len(sent) => sent'[k].to # c
          /\ \A role \in ROLES :
                role_client'[role] # role_client[role] =>
                    /\ role_client'[role] \in connections
                    /\ \E k \in 1 .. Len(handled') :
                          /\ k > Len(handled)
                          /\ handled'[k].client = role_client'[role]
                          /\ handled'[k].role = role]_vars

\* team red's session has ended, the newcomer has sent a command with team
\* red's key, and the pass sent team red's frame to the newcomer and one
\* frame to each of the other roles
C27_Witness ==
    /\ PassDone
    /\ Leaver \in closed
    /\ role_client[TEAM_RED] = Newcomer
    /\ \A role \in ROLES : Cardinality(FramesTo(role)) = 1
    /\ \E k \in FramesTo(TEAM_RED) : published[k].to = Newcomer

\* team red's session has ended and nobody took its place: the pass sent
\* team red no frame and each of the other roles one
RedCutOff ==
    /\ PassDone
    /\ Leaver \in closed
    /\ RoleCutOff(TEAM_RED)
    /\ \A role \in ROLES \ {TEAM_RED} : Cardinality(FramesTo(role)) = 1


-----------------------------------------------------------------------------
(* A goal in open play *)

\* the team attacking the goal the ball lies in
Scorer == IF probe.ball[1] > 0 THEN TEAM_RED ELSE TEAM_BLUE

GoalReason == IF Scorer = TEAM_RED THEN SCORE_RED_TEAM ELSE SCORE_BLUE_TEAM

\* where robot i of team t stands for a kick-off by team owner, in the
\* coordinates of the current half
KickoffPlace(t, i, owner) ==
    LET formation == IF t = owner THEN "KICKOFF" ELSE "DEFAULT"
        sign == IF half_passed THEN -1 ELSE 1
    IN  [x |-> sign * ROBOT_FORMATION(formation)[i + 1][1] * Sign(t),
         y |-> sign * ROBOT_FORMATION(formation)[i + 1][2] * Sign(t),
         th |-> ROBOT_FORMATION(formation)[i + 1][3]
                  + (IF t = TEAM_RED THEN 0 ELSE PI) - PI \div 2
                  + (IF half_passed THEN PI ELSE 0),
         stand |-> TRUE]

GoalPassDone == DefaultPassDone /\ InGoalMouth(probe.ball)

\* C28: a DEFAULT-phase pass that finds the ball inside a goal mouth treats it
\* as a goal and not as a ball out of the field: the team attacking that goal
\* (red for x > 0, blue for x < 0) gets one point, the phase becomes KICKOFF,
\* the team that conceded owns the ball, ball and robots stand in the kick-off
\* formation with only the owner's robot 4 active, the reset reason names the
\* scoring team, and the pass takes no goal-kick, corner-kick, penalty or
\* deadlock decision.
C28_GoalBeforeOutOfField ==
    GoalPassDone =>
        /\ score = [probe.from.score EXCEPT ![Scorer] = @ + 1]
        /\ game_state = STATE_KICKOFF
        /\ ball_ownership = Other(Scorer)
        /\ ballW = <<0, 0>> /\ ballV = 0
        /\ \A t \in TEAMS, i \in IDS :
              /\ robot[t][i].active <=> (t = Other(Scorer) /\ i = 4)
              /\ robot[t][i].sentout_time = 0
              /\ robW[t][i] = KickoffPlace(t, i, Other(Scorer))
        /\ reset_reason = GoalReason
        /\ probe.fired = <<"goal">>
        /\ phase_time.kickoff = probe.from.time

\* a pass counted a goal of team blue while the ball also was outside the
\* field and team blue had touched it more recently than team red
C28_Witness ==
    /\ GoalPassDone
    /\ Scorer = TEAM_BLUE
    /\ ~RedTouchedMore
    /\ Cardinality({i \in IDS : probe.seen.touch[TEAM_BLUE][i]}) > 0
    /\ score[TEAM_BLUE] = probe.from.score[TEAM_BLUE] + 1
    /\ ball_ownership = TEAM_RED
    /\ reset_reason = SCORE_BLUE_TEAM

\* a pass counted a goal of team red in the second half
GoalInSecondHalf ==
    GoalPassDone /\ half_passed /\ Scorer = TEAM_RED /\ ball_ownership = TEAM_BLUE


-----------------------------------------------------------------------------
(* Set-piece phases *)

SetPieces == {STATE_KICKOFF, STATE_GOALKICK, STATE_CORNERKICK, STATE_PENALTYKICK}

\* the robot that takes the set piece: the goalkeeper for a goal kick, the
\* attacker otherwise
Designated(state) == IF state = STATE_GOALKICK THEN 0 ELSE 4

\* when the current phase was entered
PhaseEntry ==
    CASE game_state = STATE_KICKOFF -> phase_time.kickoff
      [] game_state = STATE_GOALKICK -> phase_time.goalkick
      [] game_state = STATE_CORNERKICK -> phase_time.cornerkick
      [] game_state = STATE_PENALTYKICK -> phase_time.penaltykick
      [] OTHER -> 0

\* SpecPiece: open play in the longer half, with the moves that lead into
\* every set piece and out of it: the ball out behind team blue's goal line
\* after a touch by team red (goal kick) or behind team red's untouched (corner
\* kick), a goal (kick-off), the ball at rest in team red's penalty area while
\* team red's goalkeeper has left the field (penalty kick), touches by team
\* blue's goalkeeper and attacker, the ball leaving the centre circle
PieceMoves ==
    {EnvMove(<<>>, 0, "none", {}),
     EnvMove(<<-34, 2>>, 0, "leave", {}),
     EnvMove(<<42, 8>>, DEADLOCK_THRESHOLD, "none", {<<TEAM_RED, 4>>}),
     EnvMove(<<-42, 8>>, DEADLOCK_THRESHOLD, "none", {}),
     EnvMove(<<41, 0>>, DEADLOCK_THRESHOLD, "none", {}),
     EnvMove(<<>>, DEADLOCK_THRESHOLD, "none", {<<TEAM_BLUE, 0>>}),
     EnvMove(<<>>, DEADLOCK_THRESHOLD, "none", {<<TEAM_BLUE, 4>>}),
     EnvMove(<<6, 0>>, DEADLOCK_THRESHOLD, "none", {})}

PieceStep == FinalStepFor("run", PieceMoves, Keeper)

NextPiece == RegularPass \/ PieceStep

SpecPiece == InitReturn /\ [][NextPiece]_vars

OnlyKickerActive ==
    \A t \in TEAMS, i \in IDS :
        robot[t][i].active => (t = ball_ownership /\ i = Designated(game_state))

\* C29: whenever the phase is KICKOFF, GOALKICK, CORNERKICK or PENALTYKICK, no
\* robot is active except the designated robot of the team owning the ball
\* (robot 0 in GOALKICK, robot 4 in the other three), and as long as a pass
\* leaves the phase as it is the ball ownership stays the same.
C29_OnlyKickerActive ==
    /\ [](game_state \in SetPieces => OnlyKickerActive)
    /\ [][(pc = "run" /\ time < game_time /\ game_state \in SetPieces
             /\ game_state' = game_state)
          => ball_ownership' = ball_ownership]_vars

\* a pass has left a goal kick of team blue as it is, the goalkeeper of team
\* blue being the only active robot
C29_Witness ==
    /\ PassDone
    /\ probe.seen.state = STATE_GOALKICK /\ game_state = STATE_GOALKICK
    /\ ball_ownership = TEAM_BLUE
    /\ robot[TEAM_BLUE][0].active
    /\ OnlyKickerActive
    /\ time > PhaseEntry

\* the robot taking a set piece has been sent out: nobody is active
KickerSentOut ==
    /\ PassDone
    /\ game_state \in SetPieces
    /\ ~robot[ball_ownership][Designated(game_state)].active
    /\ robot[ball_ownership][Designated(game_state)].sentout_time # 0


\* the phase the pass began in, when it was entered and how long it may last
PassPhase == probe.seen.state

PassPhaseEntry ==
    CASE PassPhase = STATE_KICKOFF -> probe.from.phase_time.kickoff
      [] PassPhase = STATE_GOALKICK -> probe.from.phase_time.goalkick
      [] PassPhase = STATE_CORNERKICK -> probe.from.phase_time.cornerkick
      [] OTHER -> probe.from.phase_time.penaltykick

TimeLimit(state) ==
    CASE state = STATE_KICKOFF -> KICKOFF_TIME_LIMIT_MS
      [] state = STATE_GOALKICK -> GOALKICK_TIME_LIMIT_MS
      [] state = STATE_CORNERKICK -> CORNERKICK_TIME_LIMIT_MS
      [] OTHER -> PENALTYKICK_TIME_LIMIT_MS

TimeUp == probe.from.time - PassPhaseEntry >= TimeLimit(PassPhase)

\* what releases the phase the pass began in, as the pass found it
ReleaseEvent ==
    CASE PassPhase = STATE_KICKOFF ->
           probe.ball[1] * probe.ball[1] + probe.ball[2] * probe.ball[2]
               > KICKOFF_BORDER * KICKOFF_BORDER
      [] PassPhase = STATE_GOALKICK -> robot[probe.from.ball_ownership][0].touch
      [] PassPhase = STATE_CORNERKICK ->
           \E i \in IDS : robot[probe.from.ball_ownership][i].touch
      [] OTHER -> robot[probe.from.ball_ownership][4].touch

SetPiecePassDone == PassDone /\ PassPhase \in SetPieces

\* C30: a pass that begins in a set-piece phase makes the phase DEFAULT exactly
\* when the time limit of the phase has elapsed since the phase was entered or
\* the release event of the phase occurred (KICKOFF: ball outside the centre
\* circle; GOALKICK: the owner's goalkeeper touches the ball; CORNERKICK: any
\* robot of the owner touches the ball; PENALTYKICK: the owner's robot 4
\* touches the ball), otherwise it leaves the phase as it is; on exit every
\* robot is active; and no pass finds a set piece older than its time limit.
C30_SetPieceExit ==
    SetPiecePassDone =>
        /\ game_state = STATE_DEFAULT <=> (TimeUp \/ ReleaseEvent)
        /\ game_state \in {STATE_DEFAULT, PassPhase}
        /\ game_state = STATE_DEFAULT => \A t \in TEAMS, i \in IDS : robot[t][i].active
        /\ game_state = PassPhase => phase_time = probe.from.phase_time
        /\ probe.from.time - PassPhaseEntry <= TimeLimit(PassPhase)
        /\ deadlock_time = probe.from.time

\* a corner kick of team blue ended because team blue's goalkeeper touched the
\* ball before the time limit
C30_Witness ==
    /\ SetPiecePassDone
    /\ PassPhase = STATE_CORNERKICK
    /\ probe.from.ball_ownership = TEAM_BLUE
    /\ robot[TEAM_BLUE][0].touch /\ ~robot[TEAM_BLUE][4].touch
    /\ ~TimeUp
    /\ game_state = STATE_DEFAULT
    /\ \A t \in TEAMS, i \in IDS : robot[t][i].active

\* a penalty kick ran into its time limit
PenaltyKickTimedOut ==
    /\ SetPiecePassDone
    /\ PassPhase = STATE_PENALTYKICK
    /\ TimeUp /\ ~ReleaseEvent
    /\ game_state = STATE_DEFAULT

\* a goal kick went on although the owner's attacker touched the ball
GoalKickGoesOn ==
    /\ SetPiecePassDone
    /\ PassPhase = STATE_GOALKICK
    /\ robot[probe.from.ball_ownership][4].touch
    /\ game_state = STATE_GOALKICK

\* a robot sent out during a set piece is active again at the exit, with its
\* sent-out time still set
ActiveAtExitWhileOut ==
    /\ SetPiecePassDone
    /\ game_state = STATE_DEFAULT
    /\ \E t \in TEAMS, i \in IDS : robot[t][i].active /\ robot[t][i].sentout_time # 0


-----------------------------------------------------------------------------
(* The ball out of the field in open play *)

\* the pass found the ball outside the field and not in a goal mouth
BallLeftField == ~ball_in_field(probe.from) /\ ~InGoalMouth(probe.ball)

TouchedBy(t) == Cardinality({i \in IDS : probe.seen.touch[t][i]})

\* the opponent of the team with more robots in the touch record; on equal
\* counts the team attacking the side where the ball left
ExitOwner ==
    IF TouchedBy(TEAM_RED) > TouchedBy(TEAM_BLUE) THEN TEAM_BLUE
    ELSE IF TouchedBy(TEAM_BLUE) > TouchedBy(TEAM_RED) THEN TEAM_RED
    ELSE IF probe.ball[1] < 0 THEN TEAM_BLUE ELSE TEAM_RED

\* team red defends the side x < 0, team blue the other
DefendsExitSide(t) == (t = TEAM_RED) <=> (probe.ball[1] < 0)

\* C31: a DEFAULT-phase pass that finds the ball outside the field and not in
\* a goal mouth gives the ball to the opponent of the team with more robots in
\* the most recent touch record, on equal counts to the team attacking the
\* side where the ball left (blue for x < 0, red otherwise); the phase becomes
\* GOALKICK with only the owner's goalkeeper active when the owner defends that
\* side and CORNERKICK with only the owner's robot 4 active otherwise, and the
\* reset reason names the phase.
C31_BallOutOfField ==
    (DefaultPassDone /\ BallLeftField) =>
        /\ ball_ownership = ExitOwner
        /\ IF DefendsExitSide(ExitOwner)
           THEN game_state = STATE_GOALKICK /\ reset_reason = GOALKICK
           ELSE game_state = STATE_CORNERKICK /\ reset_reason = CORNERKICK
        /\ \A t \in TEAMS, i \in IDS :
              robot[t][i].active <=> (t = ExitOwner /\ i = Designated(game_state))
        /\ probe.fired = <<"out">>

\* the ball left behind team blue's goal line after a touch by team red only:
\* goal kick of team blue
C31_Witness ==
    /\ DefaultPassDone /\ BallLeftField
    /\ probe.ball[1] > 0
    /\ TouchedBy(TEAM_RED) > TouchedBy(TEAM_BLUE)
    /\ game_state = STATE_GOALKICK
    /\ ball_ownership = TEAM_BLUE
    /\ robot[TEAM_BLUE][0].active

\* the ball left behind team red's goal line with nobody in the touch record:
\* corner kick of team blue
CornerOnEqualCounts ==
    /\ DefaultPassDone /\ BallLeftField
    /\ probe.ball[1] < 0
    /\ TouchedBy(TEAM_RED) = 0 /\ TouchedBy(TEAM_BLUE) = 0
    /\ game_state = STATE_CORNERKICK
    /\ ball_ownership = TEAM_BLUE


-----------------------------------------------------------------------------
(* SpecArea: open play with the ball at rest in a penalty area, in a corner   *)
(* region or in midfield, some robots of either team around it, the defending *)
(* goalkeeper possibly back at its place while still sent out                 *)

AreaBalls == {<<-34, 2>>, <<34, 2>>, <<34, 14>>, <<-34, -14>>, <<0, 14>>}

Crowd == 0 .. NUMBER_OF_ROBOTS - 1

\* where robot i of team t stands when it is one of the crowd near ball b:
\* the defenders on one line, the attackers on another
AreaSpot(b, t, i) ==
    LET s == IF b[1] > 0 THEN 1 ELSE -1
        defends == (t = TEAM_RED) <=> (s < 0)
    IN  <<s * (IF defends THEN 32 ELSE 36),
          IF Abs(b[2]) < PENALTY_AREA_WIDTH \div 2 THEN 2 * i - 5
          ELSE IF b[2] > 0 THEN 10 + i ELSE -(10 + i)>>

AreaPlacement(base, hp, b, n, keeper_out) ==
    LET f == IF hp THEN -1 ELSE 1
        d == IF b[1] > 0 THEN TEAM_BLUE ELSE TEAM_RED
    IN  [base EXCEPT
           !.half_passed = hp,
           !.ballW = <<f * b[1], f * b[2]>>,
           !.ball_position = b,
           !.ballV = 0,
           !.robW = [t \in TEAMS |-> [i \in IDS |->
               [x |-> IF i \in 1 .. n[t] THEN f * AreaSpot(b, t, i)[1] ELSE f * @[t][i].x,
                y |-> IF i \in 1 .. n[t] THEN f * AreaSpot(b, t, i)[2] ELSE f * @[t][i].y,
                th |-> @[t][i].th + (IF hp THEN PI ELSE 0),
                stand |-> TRUE]]],
           !.robot[d][0] = IF keeper_out
                           THEN [@ EXCEPT !.active = FALSE, !.sentout_time = base.time]
                           ELSE @]

InitArea ==
    /\ QuietProtocol
    /\ pc = "run"
    /\ connections = OldClients
    /\ role_client = OldBinding
    /\ ready = <<TRUE, TRUE, TRUE, TRUE>>
    /\ \E hp \in BOOLEAN, b \in AreaBalls, n \in [TEAMS -> Crowd],
          keeper_out \in BOOLEAN :
          InitMatchVars(AreaPlacement(OpenPlay, hp, b, n, keeper_out))

AreaMoves == {EnvMove(<<>>, 0, "none", {})}

AreaStep == FinalStepTo("run", AreaMoves)

NextArea == RegularPass \/ AreaStep

SpecArea == InitArea /\ [][NextArea]_vars

\* what the penalty-area rule of the pass found: its inputs
AreaSeen == probe.seen.pa

BallInArea ==
    /\ Abs(AreaSeen.ball[1]) >= FIELD_LENGTH \div 2 - PENALTY_AREA_DEPTH
    /\ Abs(AreaSeen.ball[2]) <= PENALTY_AREA_WIDTH \div 2

\* the team defending the penalty area the ball is in
Defender == IF AreaSeen.ball[1] < 0 THEN TEAM_RED ELSE TEAM_BLUE

\* the active robots of team t in the penalty area of the ball's side
InArea(t) ==
    Cardinality({i \in IDS :
        /\ AreaSeen.active[t][i]
        /\ IF AreaSeen.ball[1] > 0
           THEN AreaSeen.place[t][i].x > FIELD_LENGTH \div 2 - PENALTY_AREA_DEPTH
           ELSE AreaSeen.place[t][i].x < -(FIELD_LENGTH \div 2 - PENALTY_AREA_DEPTH)
        /\ Abs(AreaSeen.place[t][i].y) < PENALTY_AREA_WIDTH \div 2})

DefendersCrowd == BallInArea /\ InArea(Defender) > PA_THRESHOLD_D
AttackersCrowd ==
    BallInArea /\ ~DefendersCrowd /\ InArea(Other(Defender)) > PA_THRESHOLD_A

AreaRulePassDone == DefaultPassDone /\ AreaSeen.entered

\* C32: the penalty-area rule of a DEFAULT-phase pass: with the ball inside a
\* penalty area and more active robots of the defending team in it than the
\* defending threshold, the attacking team gets the ball and the phase becomes
\* PENALTYKICK; otherwise, with more active robots of the attacking team in it
\* than the attacking threshold, the defending team gets the ball and the phase
\* becomes GOALKICK; if neither holds, or the ball is in no penalty area, the
\* rule leaves ownership and phase as it found them.
C32_PenaltyAreaRule ==
    AreaRulePassDone =>
        IF DefendersCrowd
        THEN /\ ball_ownership = Other(Defender)
             /\ game_state = STATE_PENALTYKICK
             /\ reset_reason = PENALTYKICK
        ELSE IF AttackersCrowd
        THEN /\ ball_ownership = Defender
             /\ game_state = STATE_GOALKICK
             /\ reset_reason = GOALKICK
        ELSE /\ "penalty_area" \notin {probe.fired[k] : k \in 1 .. Len(probe.fired)}
             /\ (probe.fired = AreaSeen.fired =>
                    /\ ball_ownership = AreaSeen.owner
                    /\ game_state = AreaSeen.state
                    /\ reset_reason = AreaSeen.reason)

\* four active defenders of team red in their penalty area: penalty kick of
\* team blue
C32_Witness ==
    /\ AreaRulePassDone
    /\ DefendersCrowd /\ Defender = TEAM_RED
    /\ InArea(TEAM_RED) = PA_THRESHOLD_D + 1
    /\ probe.fired = <<"penalty_area">>
    /\ game_state = STATE_PENALTYKICK /\ ball_ownership = TEAM_BLUE

\* three attackers of team red in team blue's penalty area: goal kick of blue
AttackersCrowdGoalKick ==
    /\ AreaRulePassDone
    /\ AttackersCrowd /\ Defender = TEAM_BLUE
    /\ game_state = STATE_GOALKICK /\ ball_ownership = TEAM_BLUE

\* the sent-out goalkeeper at its place is not counted: three more defenders
\* do not exceed the threshold
InactiveKeeperNotCounted ==
    /\ AreaRulePassDone
    /\ BallInArea /\ ~DefendersCrowd /\ ~AttackersCrowd
    /\ ~AreaSeen.active[Defender][0]
    /\ InArea(Defender) = PA_THRESHOLD_D
    /\ probe.fired = <<>>


-----------------------------------------------------------------------------
(* The deadlock timer *)

DeadlockKinds == {"deadlock_general", "deadlock_pa", "deadlock_corner"}

\* the pass just made resolved a deadlock
Resolved(trace) == \E k \in 1 .. Len(trace) : trace[k] \in DeadlockKinds

\* a regular pass is being made
PassStep == pc = "run" /\ time < game_time /\ pc' = "step"

\* C33: a pass resolves a deadlock only in the DEFAULT phase, only when no
\* goal, out-of-field or penalty-area restart happened in it, and only with the
\* ball below the speed threshold now and at every pass since a moment at
\* least the deadlock duration ago: the deadlock timer is set to the clock by
\* every pass in another phase, by every pass that restarts play or resolves a
\* deadlock (phase entries included) and by every pass that finds the ball at
\* or above the threshold, half-time sets it to the new clock, and nothing
\* else moves it.
C33_DeadlockOnlyAfterStillBall ==
    [][/\ PassStep =>
            /\ Resolved(probe'.fired) =>
                  /\ game_state = STATE_DEFAULT
                  /\ Len(probe'.fired) = 1
                  /\ ballV < DEADLOCK_THRESHOLD
                  /\ time - deadlock_time >= DEADLOCK_DURATION_MS
            /\ (game_state # STATE_DEFAULT \/ probe'.fired # <<>>
                  \/ ballV >= DEADLOCK_THRESHOLD) => deadlock_time' = time
            /\ deadlock_time' \in {deadlock_time, time}
       /\ (pc = "run" /\ time >= game_time /\ ~half_passed /\ pc' = "run") =>
            deadlock_time' = 0 /\ time' = 0
       /\ pc # "run" => deadlock_time' = deadlock_time]_vars

\* a deadlock was resolved after the ball had moved fast at an earlier pass of
\* open play: the count began at that pass
C33_Witness ==
    /\ DefaultPassDone
    /\ Resolved(probe.fired)
    /\ probe.seen.deadlock.still >= DEADLOCK_DURATION_MS
    /\ probe.seen.deadlock.speed < DEADLOCK_THRESHOLD
    /\ probe.from.time - probe.seen.deadlock.still > probe.from.phase_time.kickoff


-----------------------------------------------------------------------------
(* Deadlock beyond the penalty-area depth line *)

\* what the deadlock check of the pass found
StillSeen == probe.seen.deadlock

\* the deadlock check of a DEFAULT-phase pass found the ball at rest for the
\* deadlock duration beyond the penalty-area depth line
DeadlockBeyondDepth ==
    /\ DefaultPassDone
    /\ AreaSeen.entered
    /\ StillSeen.entered
    /\ StillSeen.speed < DEADLOCK_THRESHOLD
    /\ StillSeen.still >= DEADLOCK_DURATION_MS
    /\ Abs(StillSeen.ball[1]) > FIELD_LENGTH \div 2 - PENALTY_AREA_DEPTH

DeadlockInArea == Abs(StillSeen.ball[2]) < PENALTY_AREA_WIDTH \div 2

\* the robots of team t that were active in the region of concern when the
\* deadlock was found, and the sum of their distances to the ball
StuckIn(kind, t) ==
    {i \in IDS : /\ StillSeen.active[t][i]
                 /\ InRegionOfConcern(kind, StillSeen.ball, AreaSeen.place[t][i])}

StuckDistance(kind, t) ==
    LET b == StillSeen.ball
        d == [i \in IDS |->
                 Sqrt100(DistanceSquared(AreaSeen.place[t][i].x, AreaSeen.place[t][i].y,
                                         b[1], b[2]))]
    IN  SumOver(StuckIn(kind, t), d)

\* the tie-break: more robots, then the smaller distance (the counts being
\* equal, the sums compare as the averages), then the attacking side
TieBreak(kind) ==
    LET n0 == Cardinality(StuckIn(kind, TEAM_RED))
        n1 == Cardinality(StuckIn(kind, TEAM_BLUE))
        d0 == StuckDistance(kind, TEAM_RED)
        d1 == StuckDistance(kind, TEAM_BLUE)
    IN  IF n0 > n1 THEN TEAM_RED
        ELSE IF n1 > n0 THEN TEAM_BLUE
        ELSE IF d0 < d1 THEN TEAM_RED
        ELSE IF d1 < d0 THEN TEAM_BLUE
        ELSE IF StillSeen.ball[1] > 0 THEN TEAM_RED ELSE TEAM_BLUE

OwnerDefendsStuckSide == (ball_ownership = TEAM_RED) <=> (StillSeen.ball[1] < 0)

OnlyDesignatedActive ==
    \A t \in TEAMS, i \in IDS :
        robot[t][i].active <=> (t = ball_ownership /\ i = Designated(game_state))

\* C34: a deadlock with the ball beyond the penalty-area depth line resolves
\* by region: inside a penalty area the owner is the penalty-area tie-break
\* result and the phase becomes GOALKICK when the owner defends that side and
\* PENALTYKICK otherwise; in a corner region the owner is the corner tie-break
\* result and the phase becomes CORNERKICK; in both cases only the owner's
\* designated robot is active afterwards and the reset reason names the phase.
C34_DeadlockByRegion ==
    DeadlockBeyondDepth =>
        /\ IF DeadlockInArea
           THEN /\ probe.fired = <<"deadlock_pa">>
                /\ ball_ownership = TieBreak("pa")
                /\ IF OwnerDefendsStuckSide
                   THEN game_state = STATE_GOALKICK /\ reset_reason = GOALKICK
                   ELSE game_state = STATE_PENALTYKICK /\ reset_reason = PENALTYKICK
           ELSE /\ probe.fired = <<"deadlock_corner">>
                /\ ball_ownership = TieBreak("corner")
                /\ game_state = STATE_CORNERKICK
                /\ reset_reason = CORNERKICK
        /\ OnlyDesignatedActive

\* C34 witness: a deadlock in a corner region was given to the team with more
\* robots there, against the side rule and against the owner before
C34_Witness ==
    /\ DeadlockBeyondDepth
    /\ ~DeadlockInArea
    /\ Cardinality(StuckIn("corner", TEAM_RED)) # Cardinality(StuckIn("corner", TEAM_BLUE))
    /\ ball_ownership # StillSeen.owner
    /\ ball_ownership # (IF StillSeen.ball[1] > 0 THEN TEAM_RED ELSE TEAM_BLUE)
    /\ game_state = STATE_CORNERKICK

\* a deadlock inside a penalty area ended in a penalty kick, and in a goal kick
AreaDeadlockPenaltyKick ==
    DeadlockBeyondDepth /\ DeadlockInArea /\ game_state = STATE_PENALTYKICK

AreaDeadlockGoalKick ==
    DeadlockBeyondDepth /\ DeadlockInArea /\ game_state = STATE_GOALKICK


-----------------------------------------------------------------------------
(* The two frames of one publish_current_frame call *)

\* positions k - 1 and k of the frames sent hold the team-red and the
\* team-blue frame of one call
FramePairAt(k) ==
    /\ k \in 2 .. Len(published)
    /\ published[k - 1].role = TEAM_RED
    /\ published[k].role = TEAM_BLUE

\* row is the list of team c's robots as the receiving team sees them, in the
\* state the pass began in
RowShows(row, receiver, c) ==
    LET s == IF receiver = TEAM_RED THEN 1 ELSE -1
    IN  \A i \in IDS :
           /\ row[i].x = s * get_robot_posture(probe.from, c, i).x
           /\ row[i].y = s * get_robot_posture(probe.from, c, i).y
           /\ row[i].active = probe.from.robot[c][i].active

\* the pair is consistent and role-relative
PairConsistent(fr, fb) ==
    /\ fr.ball_ownership # fb.ball_ownership
    /\ fb.score = <<fr.score[2], fr.score[1]>>
    /\ \A i \in IDS :
          /\ fb.coordinates[1][i].active = fr.coordinates[2][i].active
          /\ fb.coordinates[2][i].active = fr.coordinates[1][i].active
          /\ fb.coordinates[1][i].touch = fr.coordinates[2][i].touch
          /\ fb.coordinates[2][i].touch = fr.coordinates[1][i].touch
          /\ fb.coordinates[1][i].x = -fr.coordinates[2][i].x
          /\ fb.coordinates[1][i].y = -fr.coordinates[2][i].y
          /\ fb.coordinates[2][i].x = -fr.coordinates[1][i].x
          /\ fb.coordinates[2][i].y = -fr.coordinates[1][i].y
    /\ fr.reset_reason = SCORE_MYTEAM <=> fb.reset_reason = SCORE_OPPONENT
    /\ fr.reset_reason = SCORE_OPPONENT <=> fb.reset_reason = SCORE_MYTEAM

\* C35: the team-red and the team-blue frame built by one call are consistent
\* and role-relative: the ball-ownership flag is true in exactly one of them,
\* the score pair of one is the reverse of the other, each lists the receiving
\* team's robots first and the opponent's second, and a goal reported as
\* scored by my team in one is reported as scored by the opponent in the other.
C35_FramePairConsistent ==
    /\ \A k \in 2 .. Len(published) :
          FramePairAt(k) => PairConsistent(published[k - 1].frame, published[k].frame)
    /\ (PassDone /\ FramePairAt(2)) =>
          /\ RowShows(published[1].frame.coordinates[1], TEAM_RED, TEAM_RED)
          /\ RowShows(published[1].frame.coordinates[2], TEAM_RED, TEAM_BLUE)
          /\ RowShows(published[2].frame.coordinates[1], TEAM_BLUE, TEAM_BLUE)
          /\ RowShows(published[2].frame.coordinates[2], TEAM_BLUE, TEAM_RED)

\* C35 witness: a pass sent the pair of frames that report team blue's goal,
\* with the score no longer level and not every robot active
C35_Witness ==
    /\ PassDone
    /\ FramePairAt(2)
    /\ published[1].frame.reset_reason = SCORE_OPPONENT
    /\ published[2].frame.reset_reason = SCORE_MYTEAM
    /\ published[1].frame.score[1] # published[1].frame.score[2]
    /\ \E i \in IDS : ~published[1].frame.coordinates[1][i].active
    /\ \E i \in IDS : published[2].frame.coordinates[1][i].active

\* the pair of the second half, where the world is seen turned round
PairInSecondHalf ==
    /\ PassDone
    /\ FramePairAt(2)
    /\ published[1].frame.half_passed
    /\ published[1].frame.ball_ownership


-----------------------------------------------------------------------------
(* Active robots and the sent-out time *)

\* C36: whenever a loop pass is about to begin, every active robot has
\* sent-out time 0: no robot waiting in the foul zone is active, in particular
\* not after a set-piece phase ended and unlocked the robots.
C36_ActiveNeverSentOut ==
    pc = "run" =>
        \A t \in TEAMS, i \in IDS : robot[t][i].active => robot[t][i].sentout_time = 0


-----------------------------------------------------------------------------
(* Keys in the answers to get_info *)

IsGetInfo(h) == h.kind = "get_info"

\* the get_info commands handled so far, in order; every one of them is
\* answered at once, so answer k belongs to request k
InfoRequests == SelectSeq(handled, IsGetInfo)

\* C37: no message sent to a client discloses the key of another role: the
\* answer to a get_info holds at most the key of the role that the key of the
\* request resolved to.
C37_NoForeignKey ==
    \A k \in 1 .. Len(sent) :
        (sent[k].kind = "info" /\ k <= Len(InfoRequests)) =>
            /\ InfoRequests[k].role \in ROLES
            /\ sent[k].body = RoleKey(InfoRequests[k].role)

\* team blue asked with its own key and was sent team red's key
RedKeySentToBlue ==
    \E k \in 1 .. Len(sent) :
        /\ k <= Len(InfoRequests)
        /\ sent[k].kind = "info"
        /\ InfoRequests[k].role = TEAM_BLUE
        /\ sent[k].to = InfoRequests[k].client
        /\ sent[k].body = RoleKey(TEAM_RED)


-----------------------------------------------------------------------------
(* SpecWheels: open play in the longer half, every pass beginning with its  *)
(* I/O phase.  Both teams send wheel speeds; a robot falls and stays down,  *)
(* the ball goes into a goal.                                               *)

BlueSender == "b0"
BlueSpeedsCall == Call(N_set_speeds, RoleKey(TEAM_BLUE), TenTwos)

WheelMoves ==
    {EnvMove(<<>>, 0, "none", {}),
     EnvMove(<<>>, DEADLOCK_THRESHOLD, "fall", {}),
     EnvMove(<<41, 0>>, DEADLOCK_THRESHOLD, "none", {})}

WheelStep == FinalStepTo("spin", WheelMoves)

\* the length of the half in SpecWheels
WheelGameTime == 6
WheelConfig == [deadlock |-> TRUE, repeat |-> FALSE, game_time |-> WheelGameTime]

InitWheels ==
    /\ QuietProtocol
    /\ pc = "spin"
    /\ connections = OldClients
    /\ role_client = OldBinding
    /\ ready = <<TRUE, TRUE, TRUE, TRUE>>
    /\ InitMatchVars([OpenPlay EXCEPT !.config = WheelConfig])

NextWheels ==
    \/ ClientSend(SpinSender, SpeedsCall)
    \/ ClientSend(BlueSender, BlueSpeedsCall)
    \/ \E c \in OldClients : SpinRecv(c)
    \/ SpinReturn
    \/ RegularPass
    \/ WheelStep

SpecWheels == InitWheels /\ [][NextWheels]_vars

InactiveRobotsStopped ==
    \A t \in TEAMS, i \in IDS : ~robot[t][i].active => customData[t][i] = StoppedWheels

\* C38: every robot that is not active (locked or sent out) has a zero wheel
\* command: a client's set_speeds changes the wheel command of active robots
\* only, and whatever makes a robot inactive leaves its wheel command at zero.
C38_InactiveRobotsStopped ==
    /\ []InactiveRobotsStopped
    /\ [][pc = "spin" =>
            \A t \in TEAMS, i \in IDS :
                customData'[t][i] # customData[t][i] => robot[t][i].active]_vars

\* C38 witness: a pass without a restart sent out a robot that was active
\* when its team's wheel speeds were written; its wheel command is zero while
\* a team mate still carries the command
C38_Witness ==
    /\ PassDone
    /\ probe.fired = <<>>
    /\ \E t \in TEAMS, i \in IDS, j \in IDS :
          /\ probe.from.robot[t][i].active
          /\ ~robot[t][i].active
          /\ robot[t][i].sentout_time = time
          /\ customData[t][i] = StoppedWheels
          /\ robot[t][j].active
          /\ customData[t][j] # StoppedWheels

\* the robots locked for a kickoff stand still though wheel speeds for their
\* team arrived while the kickoff lasts
LockedRobotsIgnoreSpeeds ==
    /\ game_state = STATE_KICKOFF
    /\ pc = "run"
    /\ \E k \in 1 .. Len(handled) : handled[k].kind = "set_speeds" /\ handled[k].dWheels = {}
    /\ \E t \in TEAMS, i \in IDS : ~robot[t][i].active


-----------------------------------------------------------------------------
(* One restart in a pass *)

\* the phase a decision leads to carries its own reset reason
ReasonNamesPhase ==
    CASE game_state = STATE_KICKOFF -> reset_reason \in {SCORE_RED_TEAM, SCORE_BLUE_TEAM}
      [] game_state = STATE_GOALKICK -> reset_reason = GOALKICK
      [] game_state = STATE_CORNERKICK -> reset_reason = CORNERKICK
      [] game_state = STATE_PENALTYKICK -> reset_reason = PENALTYKICK
      [] OTHER -> reset_reason = DEADLOCK

\* C39: in a pass that begins in the DEFAULT phase at most one of the goal,
\* out-of-field, penalty-area and deadlock decisions restarts play, and a later
\* check of the pass never overrides the phase, the ball ownership or the reset
\* reason an earlier one has set.
C39_OneRestartPerTick ==
    DefaultPassDone =>
        /\ Len(probe.fired) <= 1
        /\ (probe.alive /\ probe.fired = <<>>) =>
              /\ game_state = STATE_DEFAULT
              /\ reset_reason = NONE
              /\ ball_ownership = probe.from.ball_ownership
        /\ (probe.alive /\ probe.fired # <<>>) =>
              /\ ReasonNamesPhase
              /\ probe.fired[1] \in {"goal", "out"} =>
                    /\ AreaSeen.entered
                    /\ AreaSeen.fired = probe.fired
                    /\ game_state = AreaSeen.state
                    /\ ball_ownership = AreaSeen.owner
                    /\ reset_reason = AreaSeen.reason
              /\ probe.fired[1] \in {"goal", "out", "penalty_area"} =>
                    ~StillSeen.entered

\* C39 witness: the ball went out and the goal kick put it into the penalty
\* area with the goalkeeper the only active robot there; the penalty-area rule
\* ran on that placement and left the goal kick as it was
C39_Witness ==
    /\ DefaultPassDone
    /\ probe.alive
    /\ probe.fired = <<"out">>
    /\ game_state = STATE_GOALKICK
    /\ AreaSeen.entered
    /\ BallInArea
    /\ InArea(Defender) = 1
    /\ ball_ownership = Defender

\* a goal, a penalty-area restart and a deadlock were each the one decision
GoalOnly == DefaultPassDone /\ probe.alive /\ probe.fired = <<"goal">>
AreaRuleOnly == DefaultPassDone /\ probe.alive /\ probe.fired = <<"penalty_area">>
DeadlockOnly == DefaultPassDone /\ probe.alive /\ probe.fired = <<"deadlock_general">>


-----------------------------------------------------------------------------
(* The reset reason in the regular frames *)

\* a step of the loop that is a regular pass
RegularPassStep == pc = "run" /\ probe'.kind = "pass" /\ pc' \in {"step", "stopped"}

\* the loop pass before this one was a regular pass of the same half that
\* restarted or relocated play
PrecedingPassReset ==
    /\ probe.kind = "pass"
    /\ probe.fired # <<>>
    /\ probe.from.half_passed = half_passed

\* C40: the frame of a regular pass carries a reset reason other than NONE
\* only if the loop pass immediately before performed that reset in the same
\* half, and a reset performed by a pass is carried by the frame of the next
\* regular pass; the first regular frame of the second half carries no reason
\* left over from the last tick of the first half.
C40_ResetReportedOnce ==
    [][RegularPassStep =>
          /\ \A k \in 1 .. Len(published') :
                published'[k].frame.reset_reason # NONE => PrecedingPassReset
          /\ (PrecedingPassReset /\ probe.alive) =>
                \A k \in 1 .. Len(published') :
                    published'[k].frame.reset_reason # NONE]_vars

\* the first regular pass of the second half has sent a frame that reports a
\* goal of the first half
LeftOverReasonInSecondHalf ==
    /\ PassDone
    /\ probe.from.half_passed
    /\ probe.from.time = 0
    /\ probe.from.reset_reason \in {SCORE_RED_TEAM, SCORE_BLUE_TEAM}
    /\ published # <<>>
    /\ \A k \in 1 .. Len(published) :
          published[k].frame.reset_reason \in {SCORE_MYTEAM, SCORE_OPPONENT}

====
